---- MODULE Spec2Model ----
(***************************************************************************)
(* A model of ova-esxi-uploader: the OVA (TAR) indexer of pkg/ova, the     *)
(* retry executor of pkg/retry, the session tracker of pkg/progress, the   *)
(* chunked uploader of pkg/esxi and the upload run of cmd (runUpload).     *)
(*                                                                         *)
(* Sizes and offsets are bytes.  Durations are counted in ticks of         *)
(* 1/TicksPerSecond second and kept in a signed word of DurBits bits.      *)
(* Texts that are matched by substring (error texts, retryable patterns)   *)
(* are sequences of tokens: one token per decimal digit, one per word.     *)
(***************************************************************************)
EXTENDS Integers, Sequences, FiniteSets, TLC

VARIABLES
    archive,     \* the container file: the TAR records in archive order
    pkg,         \* ParseOVA's result: <<>> before the call, else <<[err, p]>>
    cfg,         \* retry.Config handed to NewRetryManager
    rm,          \* the RetryManager built from cfg
    attempt,     \* ExecuteWithStats: attempt
    rpc,         \* ExecuteWithStats: position (idle, attempt, fn, wait, done)
    lastErr,     \* ExecuteWithStats: stats.LastError (<<>> is nil)
    delay,       \* ExecuteWithStats: stats.CurrentDelay
    execResult,  \* ExecuteWithStats: <<>> or <<the value returned>>
    ctxDone,     \* the context handed to ExecuteWithStats is cancelled
    opCalls,     \* history: how many times fn was invoked in this Execute
    opHist,      \* history: the kinds of result fn returned in this Execute
    cancelAt,    \* history: the wait during which the context was cancelled (0: none)
    cbLog,       \* history: the progress callback's calls, <<attempt, lastError, delay>>
    disk,        \* the session files of the working directory, by session id: <<>> or <<JSON>>
    mtimeOrder,  \* the session ids in the order their files were last written
    session,     \* the tracker's session: <<>> or <<UploadSession>>
    sessionFile, \* the tracker's sessionFile, as the id in its name
    stopSaving,  \* the tracker's stopSaving channel: open or closed
    asPc,        \* autoSaveLoop: none, select, Save (in its Save), stopped
    mutex,       \* the tracker's mutex, a sync.RWMutex: readers holding it, writer state
    thr,         \* the goroutines that call the tracker: where each one is
    lastCall,    \* history: the call a direct caller of a package made last (<<>>: none)
    snapshot,    \* what a caller got from GetSession: <<>> or <<[val, sharedMap, sharedItems]>>
    flags,       \* the flags of the run
    pc,          \* runUpload: position
    runNo,       \* the number of the run (process) in progress
    itemIdx,     \* runUpload: index of the VMDK being processed
    cursor,      \* uploadFromOVAChunkedQuiet: uploadedBytes
    par,         \* uploadFromOVAParallel: work queue, results, completedBytes, workers
    failBudget,  \* the failures the endpoint may still answer with
    putLog,      \* history: the chunk PUTs issued
    loaded,      \* history: <<>> or <<the session as LoadTracker read it in this run>>
    vmCreated,   \* history: the run in which ImportVMFromOVF succeeded (0: none)
    runErr       \* the error runUpload returned ("" for nil)

parseVars == <<archive, pkg>>
retryVars == <<cfg, rm, attempt, rpc, lastErr, delay, execResult, ctxDone, opCalls,
               opHist, cancelAt, cbLog>>
trackerVars == <<disk, mtimeOrder, session, sessionFile, stopSaving, asPc>>
callVars == <<lastCall, snapshot>>
lockVars == <<mutex, thr>>
runVars == <<flags, pc, runNo, itemIdx, cursor, par, failBudget, putLog, loaded,
             vmCreated, runErr>>
vars == <<parseVars, retryVars, trackerVars, callVars, lockVars, runVars>>

----
(* Generic helpers *)

Min(a, b) == IF a < b THEN a ELSE b

Range(s) == {s[i] : i \in 1..Len(s)}

\* Integer division truncating toward zero, as Go's float64 -> int64 conversion
\* truncates a quotient.
TruncDiv(a, b) == IF a >= 0 THEN a \div b ELSE -((-a) \div b)

----
(* pkg/ova: the TAR container and ParseOVA *)

\* The TAR block: every record is one header block followed by its data padded
\* to a whole number of blocks (archive/tar, read through tar.NewReader).
BlockSize == 512

\* Entry names of the model and filepath.Ext + strings.ToLower of each.
Ext(name) ==
    CASE name \in {"vm.ovf"} -> ".ovf"
      [] name \in {"d1.vmdk", "d2.vmdk", "D3.VMDK", "d<E9>.vmdk"} -> ".vmdk"
      [] name \in {"vm.mf"} -> ".mf"
      [] name \in {"vm.cert"} -> ".cert"
      [] OTHER -> ""

\* strings.ToLower on the hash texts of the model.
ToLower(h) ==
    CASE h = "AA" -> "aa"
      [] h = "BB" -> "bb"
      [] OTHER -> h

\* A record of the container as tarReader.Next() yields it:
\*   name, typeflag ("reg" | "dir"), size (header.Size),
\*   sum: the SHA1 of the record's data, in lower-case hex as fmt's %x prints it,
\*   lines: for a manifest, its text as the lines "SHA1(file)= hash" it holds.
Rec(name, typeflag, size, sum, lines) ==
    [name |-> name, typeflag |-> typeflag, size |-> size, sum |-> sum, lines |-> lines]

\* Bytes a record's data takes in the container: header-only types carry none.
DataLen(r) == IF r.typeflag = "reg" THEN r.size ELSE 0

Padded(n) == ((n + BlockSize - 1) \div BlockSize) * BlockSize

\* Position of the header block of record i, and of its first data byte.
RECURSIVE HdrStart(_, _)
HdrStart(ar, i) ==
    IF i = 1 THEN 0
    ELSE HdrStart(ar, i - 1) + BlockSize + Padded(DataLen(ar[i - 1]))

DataStart(ar, i) == HdrStart(ar, i) + BlockSize

\* What the container holds at byte position p: <<i, k>> for byte k (from 0) of
\* the data of record i, <<0, 0>> for a header, padding or trailer byte.
ByteAt(ar, p) ==
    IF \E i \in 1..Len(ar) : p >= DataStart(ar, i) /\ p < DataStart(ar, i) + DataLen(ar[i])
    THEN LET i == CHOOSE j \in 1..Len(ar) :
                      p >= DataStart(ar, j) /\ p < DataStart(ar, j) + DataLen(ar[j])
         IN <<i, p - DataStart(ar, i)>>
    ELSE <<0, 0>>

\* The record whose data is exactly the byte range [off, off+size), 0 if none.
RecordAt(ar, off, size) ==
    IF \E i \in 1..Len(ar) : ar[i].typeflag = "reg" /\ DataStart(ar, i) = off /\ ar[i].size = size
    THEN CHOOSE i \in 1..Len(ar) : ar[i].typeflag = "reg" /\ DataStart(ar, i) = off /\ ar[i].size = size
    ELSE 0

OVAFile(name, size, offset, hash) ==
    [Name |-> name, Size |-> size, Offset |-> offset, SHA1Hash |-> hash]

EmptyPackage ==
    [OVFFile |-> <<>>, VMDKFiles |-> <<>>, ManifestFile |-> <<>>, CertFile |-> <<>>]

\* The loop of ParseOVA over the records: the running offset and the package.
RECURSIVE ParseLoop(_, _, _, _)
ParseLoop(ar, i, offset, p) ==
    IF i > Len(ar) THEN p
    ELSE LET header == ar[i]
             ovaFile == OVAFile(header.name, header.size, offset, "")
             ext == Ext(header.name)
             p2 == CASE header.typeflag # "reg" -> p
                     [] ext = ".ovf" -> [p EXCEPT !.OVFFile = <<ovaFile>>]
                     [] ext = ".vmdk" -> [p EXCEPT !.VMDKFiles = Append(@, ovaFile)]
                     [] ext = ".mf" -> [p EXCEPT !.ManifestFile = <<ovaFile>>]
                     [] ext = ".cert" -> [p EXCEPT !.CertFile = <<ovaFile>>]
                     [] OTHER -> p
         IN ParseLoop(ar, i + 1, offset + header.size, p2)

\* parseManifestFile: seek to the manifest's recorded offset, read Size bytes and
\* keep the lines the pattern matches, the hash lower-cased.  Bytes that are not
\* a manifest's text (headers, padding, other data) hold no matching line, and
\* neither does a range that takes in less of the text than one line.
parseManifestFile(ar, manifestFile) ==
    LET i == RecordAt(ar, manifestFile.Offset, manifestFile.Size)
        content == IF i # 0 THEN ar[i].lines ELSE <<>>
    IN [k \in 1..Len(content) |->
            [FileName |-> content[k][1], SHA1Hash |-> ToLower(content[k][2])]]

\* manifestMap[name]: the last entry for the name wins.
ManifestHash(manifest, name) ==
    LET ks == {k \in 1..Len(manifest) : manifest[k].FileName = name}
    IN IF ks = {} THEN <<>>
       ELSE <<manifest[CHOOSE k \in ks : \A j \in ks : j <= k].SHA1Hash>>

WithHash(f, manifest) ==
    LET h == ManifestHash(manifest, f.Name)
    IN IF h = <<>> THEN f ELSE [f EXCEPT !.SHA1Hash = h[1]]

updateHashesFromManifest(p, manifest) ==
    [p EXCEPT !.OVFFile = [k \in 1..Len(@) |-> WithHash(@[k], manifest)],
              !.VMDKFiles = [k \in 1..Len(@) |-> WithHash(@[k], manifest)]]

\* ParseOVA on a readable container: [err |-> text] or [err |-> "", the package].
ParseOVANoVMDKCheck(ar) ==
    LET p == ParseLoop(ar, 1, 0, EmptyPackage)
    IN IF p.OVFFile = <<>> THEN [err |-> "no OVF file found in OVA package", p |-> EmptyPackage]
       ELSE IF p.ManifestFile # <<>>
            THEN [err |-> "", p |-> updateHashesFromManifest(p, parseManifestFile(ar, p.ManifestFile[1]))]
       ELSE [err |-> "", p |-> p]

ParseOVA(ar) ==
    LET p == ParseLoop(ar, 1, 0, EmptyPackage)
    IN IF p.OVFFile = <<>> THEN [err |-> "no OVF file found in OVA package", p |-> EmptyPackage]
       ELSE IF Len(p.VMDKFiles) = 0
            THEN [err |-> "no VMDK files found in OVA package", p |-> EmptyPackage]
       ELSE IF p.ManifestFile # <<>>
            THEN [err |-> "", p |-> updateHashesFromManifest(p, parseManifestFile(ar, p.ManifestFile[1]))]
       ELSE [err |-> "", p |-> p]

\* fmt's %x of the SHA1 of the size bytes of the container from off: the sum of
\* the record whose data the range is, the SHA1 of no bytes for an empty range,
\* and a text no manifest holds for any other range.
HashOfRange(ar, off, size) ==
    IF size = 0 THEN "da39"
    ELSE LET i == RecordAt(ar, off, size)
         IN IF i # 0 THEN ar[i].sum ELSE "garbage"

\* The comparison without strings.ToLower.
ValidateFileChecksumCaseSensitive(ar, f) ==
    IF f.SHA1Hash = "" THEN <<>>
    ELSE LET calculatedHash == HashOfRange(ar, f.Offset, f.Size)
         IN IF calculatedHash # f.SHA1Hash
            THEN <<"checksum mismatch for", f.Name, "expected", f.SHA1Hash, "got", calculatedHash>>
            ELSE <<>>

\* ValidateFileChecksum: <<>> (nil) when the entry validates, else the error's
\* text, one token per word or value.
ValidateFileChecksum(ar, f) ==
    IF f.SHA1Hash = "" THEN <<>>
    ELSE LET calculatedHash == HashOfRange(ar, f.Offset, f.Size)
         IN IF ToLower(calculatedHash) # ToLower(f.SHA1Hash)
            THEN <<"checksum mismatch for", f.Name, "expected", f.SHA1Hash, "got", calculatedHash>>
            ELSE <<>>

----
(* pkg/retry: texts, NewRetryManager, shouldRetry, calculateDelay *)

\* fmt's %d of a non-negative number: one token per decimal digit.
Digit(d) == <<"0", "1", "2", "3", "4", "5", "6", "7", "8", "9">>[d + 1]

RECURSIVE Digits(_)
Digits(n) == IF n < 10 THEN <<Digit(n)>> ELSE Digits(n \div 10) \o <<Digit(n % 10)>>

containsSubstring(str, substr) ==
    \E i \in 0..(Len(str) - Len(substr)) : SubSeq(str, i + 1, i + Len(substr)) = substr

containsString(str, substr) ==
    Len(str) >= Len(substr) /\ (substr = <<>> \/ str = substr \/ containsSubstring(str, substr))

\* Durations: ticks in a signed word.
TicksPerSecond == 10
DurBits == 15
MaxDuration == 2^(DurBits - 1) - 1
MinDuration == -(2^(DurBits - 1))
Second == TicksPerSecond
Minute == 60 * Second

\* Two's-complement wrap of an integer sum of Durations.
Wrap(x) == ((x - MinDuration) % (2^DurBits)) + MinDuration

\* A fraction is <<numerator, denominator>>, denominator > 0.
Frac(n, d) == <<n, d>>

Config(maxRetries, baseDelay, maxDelay, backoffFactor, jitterRange, retryableErrors) ==
    [MaxRetries |-> maxRetries, BaseDelay |-> baseDelay, MaxDelay |-> maxDelay,
     BackoffFactor |-> backoffFactor, JitterRange |-> jitterRange,
     RetryableErrors |-> retryableErrors]

NewRetryManager(config) ==
    [maxRetries |-> IF config.MaxRetries = 0 THEN -1 ELSE config.MaxRetries,
     baseDelay |-> IF config.BaseDelay = 0 THEN 1 * Second ELSE config.BaseDelay,
     maxDelay |-> IF config.MaxDelay = 0 THEN 5 * Minute ELSE config.MaxDelay,
     backoffFactor |-> IF config.BackoffFactor[1] = 0 THEN Frac(2, 1) ELSE config.BackoffFactor,
     jitterRange |-> IF config.JitterRange[1] = 0 THEN Frac(1, 10) ELSE config.JitterRange,
     retryableErrors |-> config.RetryableErrors]

IsRetryableError(m, err) ==
    \/ Len(m.retryableErrors) = 0
    \/ \E k \in 1..Len(m.retryableErrors) : containsString(err, m.retryableErrors[k])

\* shouldRetry with the ceiling compared one attempt late.
shouldRetryOffByOne(m, err, att) ==
    IF m.maxRetries > 0 /\ att > m.maxRetries THEN FALSE
    ELSE IF Len(m.retryableErrors) = 0 THEN TRUE
    ELSE \E k \in 1..Len(m.retryableErrors) : containsString(err, m.retryableErrors[k])

\* shouldRetry without the test that keeps the unbounded ceiling (-1) out.
shouldRetryNoUnboundedGuard(m, err, att) ==
    IF att >= m.maxRetries THEN FALSE
    ELSE IF Len(m.retryableErrors) = 0 THEN TRUE
    ELSE \E k \in 1..Len(m.retryableErrors) : containsString(err, m.retryableErrors[k])

\* shouldRetry that never looks at the retryable patterns.
shouldRetryAnyError(m, err, att) ==
    IF m.maxRetries > 0 /\ att >= m.maxRetries THEN FALSE
    ELSE TRUE

shouldRetry(m, err, att) ==
    IF m.maxRetries > 0 /\ att >= m.maxRetries THEN FALSE
    ELSE IF Len(m.retryableErrors) = 0 THEN TRUE
    ELSE \E k \in 1..Len(m.retryableErrors) : containsString(err, m.retryableErrors[k])

\* float64(base) * math.Pow(factor, k) as the fraction <<N, D>>, or <<>> once the
\* product is beyond every Duration (factor >= 1 keeps it there).
RECURSIVE Backoff(_, _, _)
Backoff(base, factor, k) ==
    IF k = 0 THEN <<base, 1>>
    ELSE LET prev == Backoff(base, factor, k - 1)
         IN IF prev = <<>> THEN <<>>
            ELSE LET n == prev[1] * factor[1]
                     d == prev[2] * factor[2]
                 IN IF n \div d > MaxDuration THEN <<>> ELSE <<n, d>>

\* time.Duration(f) of a float64: truncation; a value no Duration holds converts
\* to a value the platform chooses (the smallest Duration on amd64, the largest
\* on arm64): conv names the platform's choice.
ToDuration(f, conv) ==
    IF f = <<>> THEN (IF conv = "min" THEN MinDuration ELSE MaxDuration)
    ELSE TruncDiv(f[1], f[2])

\* calculateDelay; draw is rand.Float64()*2 - 1 as a fraction in [-1, 1).
calculateDelay(m, att, draw, conv) ==
    LET d0 == ToDuration(Backoff(m.baseDelay, m.backoffFactor, att - 1), conv)
        d1 == IF d0 > m.maxDelay THEN m.maxDelay ELSE d0
        jitter == TruncDiv(d1 * m.jitterRange[1] * draw[1], m.jitterRange[2] * draw[2])
        d2 == IF m.jitterRange[1] > 0 THEN Wrap(d1 + jitter) ELSE d1
    IN IF d2 < 0 THEN m.baseDelay ELSE d2

----
(* pkg/progress: the session and the tracker's operations on it *)

\* The chunk size the tracker counts chunks with, whatever the uploader uses.
TrackerChunkSize == 32 * 1024 * 1024

FileProgress(fileName, totalSize, sha1Hash) ==
    [FileName |-> fileName, TotalSize |-> totalSize, UploadedSize |-> 0,
     ChunksTotal |-> (totalSize + TrackerChunkSize - 1) \div TrackerChunkSize,
     ChunksUploaded |-> 0, IsCompleted |-> FALSE, SHA1Hash |-> sha1Hash]

\* NewTracker's session.  Files is a function from the registered names.
NewSession(sessionID, datastoreName, vm) ==
    [SessionID |-> sessionID, Datastore |-> datastoreName, VMName |-> vm,
     TotalSize |-> 0, UploadedSize |-> 0, IsCompleted |-> FALSE,
     Files |-> << >>, RetryAttempts |-> 0]

HasFile(s, fileName) == fileName \in DOMAIN s.Files

AddFile(s, fileName, totalSize, sha1Hash) ==
    [s EXCEPT !.Files = [n \in (DOMAIN @) \cup {fileName} |->
                            IF n = fileName THEN FileProgress(fileName, totalSize, sha1Hash)
                            ELSE @[n]],
              !.TotalSize = @ + totalSize]

UpdateFileProgress(s, fileName, uploadedSize) ==
    IF ~HasFile(s, fileName) THEN s
    ELSE LET file == s.Files[fileName]
             oldUploaded == file.UploadedSize
             chunks == (uploadedSize \div TrackerChunkSize)
                       + (IF uploadedSize % TrackerChunkSize > 0 THEN 1 ELSE 0)
         IN [s EXCEPT !.Files[fileName].UploadedSize = uploadedSize,
                      !.Files[fileName].ChunksUploaded = chunks,
                      !.Files[fileName].IsCompleted = @ \/ (uploadedSize >= file.TotalSize),
                      !.UploadedSize = @ + (uploadedSize - oldUploaded)]

MarkFileCompleted(s, fileName) ==
    LET s1 == IF ~HasFile(s, fileName) THEN s
              ELSE LET file == s.Files[fileName]
                       remaining == file.TotalSize - file.UploadedSize
                   IN [s EXCEPT !.UploadedSize = IF file.IsCompleted THEN @ ELSE @ + remaining,
                                !.Files[fileName].UploadedSize =
                                    IF file.IsCompleted THEN @ ELSE file.TotalSize,
                                !.Files[fileName].IsCompleted = TRUE,
                                !.Files[fileName].ChunksUploaded = file.ChunksTotal]
        allCompleted == \A n \in DOMAIN s1.Files : s1.Files[n].IsCompleted
    IN IF allCompleted THEN [s1 EXCEPT !.IsCompleted = TRUE] ELSE s1

IncrementRetryAttempts(s) == [s EXCEPT !.RetryAttempts = @ + 1]

\* GetFileProgress: <<>> for nil, else <<a copy of the item>>.
GetFileProgress(s, fileName) == IF HasFile(s, fileName) THEN <<s.Files[fileName]>> ELSE <<>>

\* What GetSession hands out: the value, and which parts of it are the tracker's
\* own memory (the Files map itself, the FileProgress objects the map points to).
\* `sessionCopy := *t.session` alone copies the scalar fields and the map header.
GetSessionShallow(s) == [val |-> s, sharedMap |-> TRUE, sharedItems |-> DOMAIN s.Files]

\* GetSession: after the struct copy it makes a new map and puts a copy of every
\* FileProgress in it.
GetSession(s) == [val |-> s, sharedMap |-> FALSE, sharedItems |-> {}]

\* The snapshot a caller holds once the tracker's session has become s2: shared
\* memory shows the tracker's writes.
SnapshotAfter(snap, s2) ==
    IF snap = <<>> THEN <<>>
    ELSE LET sn == snap[1]
         IN <<[sn EXCEPT !.val.Files =
                  IF sn.sharedMap THEN s2.Files
                  ELSE [n \in DOMAIN @ |->
                           IF n \in sn.sharedItems /\ n \in DOMAIN s2.Files
                           THEN s2.Files[n] ELSE @[n]]]>>

\* The tracker's session once the caller has changed its snapshot to snap2.
SessionAfter(s, snap2) ==
    LET sn == snap2[1]
    IN [s EXCEPT !.Files =
           IF sn.sharedMap THEN sn.val.Files
           ELSE [n \in DOMAIN @ |->
                    IF n \in sn.sharedItems /\ n \in DOMAIN sn.val.Files
                    THEN sn.val.Files[n] ELSE @[n]]]

\* encoding/json: a document is a function from the keys (the struct tags) that
\* are present to their values.  SHA1Hash is tagged omitempty.
JSONGet(doc, key, zero) == IF key \in DOMAIN doc THEN doc[key] ELSE zero

\* A Go string as encoding/json writes it and reads it back: the text coerced to
\* valid UTF-8, every invalid byte replaced by U+FFFD.  Of the names of the model
\* "d<E9>.vmdk" is the one with a byte (0xE9, Latin-1) that is not valid UTF-8.
JSONString(str) ==
    CASE str = "d<E9>.vmdk" -> "d<FFFD>.vmdk"
      [] OTHER -> str

MarshalFile(f) ==
    [k \in {"fileName", "totalSize", "uploadedSize", "chunksTotal", "chunksUploaded",
            "isCompleted"} \cup (IF f.SHA1Hash = "" THEN {} ELSE {"sha1Hash"}) |->
        CASE k = "fileName" -> JSONString(f.FileName)
          [] k = "totalSize" -> f.TotalSize
          [] k = "uploadedSize" -> f.UploadedSize
          [] k = "chunksTotal" -> f.ChunksTotal
          [] k = "chunksUploaded" -> f.ChunksUploaded
          [] k = "isCompleted" -> f.IsCompleted
          [] k = "sha1Hash" -> f.SHA1Hash]

UnmarshalFile(doc) ==
    [FileName |-> JSONGet(doc, "fileName", ""),
     TotalSize |-> JSONGet(doc, "totalSize", 0),
     UploadedSize |-> JSONGet(doc, "uploadedSize", 0),
     ChunksTotal |-> JSONGet(doc, "chunksTotal", 0),
     ChunksUploaded |-> JSONGet(doc, "chunksUploaded", 0),
     IsCompleted |-> JSONGet(doc, "isCompleted", FALSE),
     SHA1Hash |-> JSONGet(doc, "sha1Hash", "")]

\* json.MarshalIndent(t.session) in Save.
Marshal(s) ==
    [sessionId |-> s.SessionID, datastore |-> s.Datastore, vmName |-> s.VMName,
     totalSize |-> s.TotalSize, uploadedSize |-> s.UploadedSize,
     isCompleted |-> s.IsCompleted,
     files |-> [k \in {JSONString(n) : n \in DOMAIN s.Files} |->
                  MarshalFile(s.Files[CHOOSE n \in DOMAIN s.Files : JSONString(n) = k])],
     retryAttempts |-> s.RetryAttempts]

\* json.Unmarshal(data, &session) in LoadTracker.
Unmarshal(doc) ==
    [SessionID |-> JSONGet(doc, "sessionId", <<>>),
     Datastore |-> JSONGet(doc, "datastore", ""),
     VMName |-> JSONGet(doc, "vmName", ""),
     TotalSize |-> JSONGet(doc, "totalSize", 0),
     UploadedSize |-> JSONGet(doc, "uploadedSize", 0),
     IsCompleted |-> JSONGet(doc, "isCompleted", FALSE),
     Files |-> LET fs == JSONGet(doc, "files", << >>)
               IN [n \in DOMAIN fs |-> UnmarshalFile(fs[n])],
     RetryAttempts |-> JSONGet(doc, "retryAttempts", 0)]

----
(* pkg/retry: ExecuteWithStats as steps over the retry variables *)

\* The attempts the model follows one Execute for.
MaxAttempts == 4

NoResult == <<>>
Returned(kind, attempts, err) == <<[kind |-> kind, attempts |-> attempts, err |-> err]>>

\* Execute is entered: attempt := 0, empty stats.
RetryBegin ==
    /\ attempt' = 0
    /\ rpc' = "attempt"
    /\ lastErr' = <<>>
    /\ delay' = 0
    /\ execResult' = NoResult
    /\ opCalls' = 0
    /\ opHist' = {}
    /\ cbLog' = <<>>

\* Top of the loop: attempt++, the stats callback (ExecuteWithProgress hands it
\* Attempts, LastError, CurrentDelay), then fn is invoked.
RetryAttempt ==
    /\ rpc = "attempt"
    /\ attempt < MaxAttempts
    /\ attempt' = attempt + 1
    /\ cbLog' = Append(cbLog, <<attempt + 1, lastErr, delay>>)
    /\ opCalls' = opCalls + 1
    /\ rpc' = "fn"
    /\ UNCHANGED <<lastErr, delay, execResult>>

\* fn returned nil.
RetryFnOk ==
    /\ rpc = "fn"
    /\ execResult' = Returned("nil", attempt, <<>>)
    /\ rpc' = "done"
    /\ opHist' = opHist \cup {"ok"}
    /\ UNCHANGED <<attempt, lastErr, delay, opCalls, cbLog>>

\* fn returned err: give up ("operation failed after %d attempts: %w"), or
\* compute the delay and enter the select.
RetryFnErr(err, draw, conv) ==
    /\ rpc = "fn"
    /\ lastErr' = <<err>>
    /\ opHist' = opHist \cup {IF IsRetryableError(rm, err) THEN "retryable" ELSE "other"}
    /\ IF ~shouldRetry(rm, err, attempt)
       THEN /\ execResult' = Returned("failed", attempt, err)
            /\ rpc' = "done"
            /\ delay' = delay
       ELSE /\ delay' = calculateDelay(rm, attempt, draw, conv)
            /\ rpc' = "wait"
            /\ execResult' = execResult
    /\ UNCHANGED <<attempt, opCalls, cbLog>>

\* select: <-time.After(delay).  A goroutine woken by ctx.Done() takes that case,
\* so the timer case is taken only while the context is live, or when both cases
\* are ready as the select is entered (a zero delay with the context already
\* cancelled), where the choice is the runtime's.
RetryWaitElapsed ==
    /\ rpc = "wait"
    /\ cancelAt = 0
    /\ ~ctxDone \/ delay = 0
    /\ rpc' = "attempt"
    /\ UNCHANGED <<attempt, lastErr, delay, execResult, opCalls, opHist, cbLog>>

\* select: <-ctx.Done(): "operation cancelled: %w".
RetryWaitCancelled ==
    /\ rpc = "wait"
    /\ ctxDone
    /\ execResult' = Returned("cancelled", attempt, <<>>)
    /\ rpc' = "done"
    /\ UNCHANGED <<attempt, lastErr, delay, opCalls, opHist, cbLog>>

----
(* cmd + pkg/esxi + pkg/progress: one upload run after another over one disk *)

\* Bounds of the run model.
MaxRuns == 2
MaxFailures == 2
MaxPayload == 3
MaxWorkers == 2

\* The values the flags are drawn from.
ChunkSizeChoices == {1, 2}
WorkerChoices == 0..MaxWorkers
MaxRetriesChoices == {0, 2}

\* The retryable patterns runUpload configures.
RunRetryableErrors ==
    << <<"connection refused">>, <<"timeout">>, <<"network">>, <<"temporary failure">>,
       <<"5", "0", "3">>, <<"5", "0", "2">>, <<"5", "0", "4">>, <<"EOF">>, <<"broken pipe">> >>

\* retry.Config of runUpload: --base-delay and --max-delay at their defaults.
RunRetryConfig(maxRetries) ==
    Config(maxRetries, 2 * Second, 2 * Minute, Frac(3, 2), Frac(2, 10), RunRetryableErrors)

\* rand.Float64()*2 - 1, as fractions the model draws from.
Draws == {Frac(-1, 1), Frac(-1, 2), Frac(0, 1), Frac(1, 2), Frac(9, 10)}
Convs == {"min", "max"}

\* The session ids a run may create: time.Now().Unix() of the run.
SessionIDOfRun(n) == Digits(n)
SessionIDs == {SessionIDOfRun(n) : n \in 1..MaxRuns}

\* The name of the session file of an id, as NewTracker builds it.
SessionPath(id) == <<".upload-session-">> \o id \o <<".json">>

NoFile == <<>>

\* FindExistingSessions: the ids with a file, in the order of the glob.
RECURSIVE GlobFrom(_, _)
GlobFrom(d, n) ==
    IF n > MaxRuns THEN <<>>
    ELSE (IF d[SessionIDOfRun(n)] # NoFile THEN <<SessionIDOfRun(n)>> ELSE <<>>) \o GlobFrom(d, n + 1)

FindExistingSessions(d) == GlobFrom(d, 1)

\* os.WriteFile: the file's content and its modification time.
Touch(order, id) == SelectSeq(order, LAMBDA x : x # id) \o <<id>>

\* runUpload, --session-id given: the first file whose name contains the id.
\* <<>> when there is none.
SessionByID(sessions, id) ==
    LET hits == {k \in 1..Len(sessions) : containsSubstring(SessionPath(sessions[k]), id)}
    IN IF hits = {} THEN <<>>
       ELSE <<sessions[CHOOSE k \in hits : \A j \in hits : k <= j]>>

\* runUpload, no --session-id: the file modified last.
Pos(order, id) == CHOOSE k \in 1..Len(order) : order[k] = id

MostRecent(sessions, order) ==
    sessions[CHOOSE k \in 1..Len(sessions) :
                \A j \in 1..Len(sessions) : Pos(order, sessions[j]) <= Pos(order, sessions[k])]

\* The text of a failed chunk PUT, from uploadChunkFromOVAQuiet.
ChunkErr(kind) ==
    CASE kind = "s503" -> <<"upload failed with status ">> \o Digits(503) \o <<": ">>
      [] kind = "s500" -> <<"upload failed with status ">> \o Digits(500) \o <<": ">>
      [] OTHER -> <<"HTTP request failed: ", "dial tcp: i/o ", "timeout">>

FailKinds == {"s503", "s500", "timeout"}

\* What the endpoint of the runs answers a failed PUT with, and the jitter drawn.
RunFailKinds == {"s503", "s500"}
RunDraws == {Frac(1, 2)}

\* The chunk ranges uploadFromOVAParallel queues, from chunk number num on.
RECURSIVE ChunkWork(_, _, _, _, _)
ChunkWork(num, currentOffset, offset, totalSize, chunk) ==
    IF num > (totalSize + chunk - 1) \div chunk THEN <<>>
    ELSE LET c == IF currentOffset + chunk > totalSize THEN totalSize - currentOffset ELSE chunk
         IN <<[chunkNumber |-> num, ovaOffset |-> offset + currentOffset, chunkSize |-> c]>>
            \o ChunkWork(num + 1, currentOffset + c, offset, totalSize, chunk)

ParIdle == [queue |-> <<>>, results |-> <<>>, completedBytes |-> 0, w |-> <<>>]

ParStart(offset, totalSize, chunk, workers) ==
    [queue |-> ChunkWork(1, 0, offset, totalSize, chunk),
     results |-> <<>>,
     completedBytes |-> 0,
     w |-> [i \in 1..workers |-> [st |-> "take", size |-> 0]]]

\* The first error of the collected results, <<>> if none.
FirstError(results) ==
    LET bad == {k \in 1..Len(results) : results[k].err # <<>>}
    IN IF bad = {} THEN <<>>
       ELSE LET k == CHOOSE j \in bad : \A i \in bad : j <= i
            IN <<<<"chunk ">> \o Digits(results[k].chunkNumber) \o <<" failed: ">> \o results[k].err[1]>>

VMDKs == pkg[1].p.VMDKFiles
Item == VMDKs[itemIdx]
Parallel == flags.workers > 1

PutEntry(f, off, n, ok) ==
    [run |-> runNo, item |-> f.Name, idx |-> itemIdx, att |-> attempt, off |-> off, n |-> n,
     ok |-> ok, par |-> Parallel]

----
(* runUpload, step by step *)

NoFlags == [workers |-> 1, chunkSize |-> 2, maxRetries |-> 0]

Return(err) ==
    /\ pc' = "returned"
    /\ runErr' = err

\* Flags, validation of --workers, --resume's choice of a session file, and
\* LoadTracker or NewTracker, which starts autoSaveLoop.
RunStart ==
    /\ pc = "start"
    /\ \E resume \in BOOLEAN, sid \in {<<>>} \cup SessionIDs, workers \in WorkerChoices,
          chunk \in ChunkSizeChoices, maxRetries \in MaxRetriesChoices :
          LET sessions == FindExistingSessions(disk)
              byID == SessionByID(sessions, sid)
              file == IF sid # <<>> THEN byID[1] ELSE MostRecent(sessions, mtimeOrder)
          IN /\ flags' = [workers |-> workers, chunkSize |-> chunk, maxRetries |-> maxRetries]
             /\ resume \/ sid = <<>>
             /\ IF workers < 1 \/ workers > 10
                THEN /\ Return("workers must be between 1 and 10")
                     /\ UNCHANGED <<session, sessionFile, stopSaving, asPc, loaded>>
                ELSE IF resume /\ sessions # <<>> /\ sid # <<>> /\ byID = <<>>
                THEN /\ Return("session with ID not found")
                     /\ UNCHANGED <<session, sessionFile, stopSaving, asPc, loaded>>
                ELSE /\ pc' = "parse"
                     /\ runErr' = ""
                     /\ stopSaving' = "open"
                     /\ asPc' = "select"
                     /\ IF resume /\ sessions # <<>>
                        THEN /\ session' = <<Unmarshal(disk[file][1])>>
                             /\ sessionFile' = file
                             /\ loaded' = <<Unmarshal(disk[file][1])>>
                        ELSE /\ session' = <<NewSession(SessionIDOfRun(runNo), "ds", "vm")>>
                             /\ sessionFile' = SessionIDOfRun(runNo)
                             /\ loaded' = <<>>
    /\ UNCHANGED <<lockVars, callVars, parseVars, retryVars, disk, mtimeOrder, runNo, itemIdx, cursor,
                   par, failBudget, putLog, vmCreated>>

\* AddFile for the OVF and for every VMDK, in order.
RECURSIVE AddFiles(_, _)
AddFiles(s, files) ==
    IF files = <<>> THEN s
    ELSE AddFiles(AddFile(s, files[1].Name, files[1].Size, files[1].SHA1Hash), Tail(files))

\* ParseOVA, then the registration of its files with the tracker.
RunParse ==
    /\ pc = "parse"
    /\ LET r == ParseOVA(archive)
       IN IF r.err # ""
          THEN /\ Return("failed to parse OVA file")
               /\ UNCHANGED <<pkg, session>>
          ELSE /\ pkg' = <<r>>
               /\ session' = <<AddFiles(session[1], r.p.OVFFile \o r.p.VMDKFiles)>>
               /\ pc' = "connect"
               /\ runErr' = runErr
    /\ UNCHANGED <<lockVars, callVars, archive, retryVars, disk, mtimeOrder, sessionFile, stopSaving, asPc,
                   flags, runNo, itemIdx, cursor, par, failBudget, putLog, loaded, vmCreated>>

\* TestConnection, Connect, GetDatastore (the hypervisor's answer is its own),
\* NewUploader, NewRetryManager.
RunConnect ==
    /\ pc = "connect"
    /\ \E ok \in BOOLEAN :
          IF ok
          THEN /\ pc' = "item"
               /\ itemIdx' = 1
               /\ cfg' = RunRetryConfig(flags.maxRetries)
               /\ rm' = NewRetryManager(RunRetryConfig(flags.maxRetries))
               /\ runErr' = runErr
          ELSE /\ Return("failed to connect to ESXi")
               /\ UNCHANGED <<itemIdx, cfg, rm>>
    /\ UNCHANGED <<lockVars, callVars, parseVars, attempt, rpc, lastErr, delay, execResult, ctxDone, opCalls, opHist,
                   cancelAt, cbLog, trackerVars, flags, runNo, cursor, par, failBudget, putLog,
                   loaded, vmCreated>>

\* Top of the loop over the VMDKs: past the last one, go on to the VM; skip a
\* file the tracker has as completed; else hand uploadFunc to the retry manager.
ItemNext ==
    /\ pc = "item"
    /\ IF itemIdx > Len(VMDKs)
       THEN /\ pc' = "create"
            /\ UNCHANGED <<itemIdx, attempt, rpc, lastErr, delay, execResult, opCalls, opHist, cbLog>>
       ELSE LET fileProgress == GetFileProgress(session[1], Item.Name)
            IN IF fileProgress # <<>> /\ fileProgress[1].IsCompleted
               THEN /\ itemIdx' = itemIdx + 1
                    /\ pc' = "item"
                    /\ UNCHANGED <<attempt, rpc, lastErr, delay, execResult, opCalls, opHist, cbLog>>
               ELSE /\ RetryBegin
                    /\ pc' = "exec"
                    /\ itemIdx' = itemIdx
    /\ UNCHANGED <<lockVars, callVars, parseVars, cfg, rm, ctxDone, cancelAt, trackerVars, flags, runNo, cursor, par,
                   failBudget, putLog, loaded, vmCreated, runErr>>

\* An attempt begins: the callback counts a retry when the last attempt failed,
\* then uploadFunc starts a single-threaded or a parallel upload from byte 0.
ExecAttempt ==
    /\ pc = "exec"
    /\ RetryAttempt
    /\ IF lastErr # <<>>
       THEN session' = <<IncrementRetryAttempts(session[1])>>
       ELSE session' = session
    /\ cursor' = 0
    /\ par' = IF Parallel
              THEN ParStart(Item.Offset, Item.Size, flags.chunkSize, flags.workers)
              ELSE ParIdle
    /\ UNCHANGED <<lockVars, callVars, parseVars, cfg, rm, ctxDone, opHist, cancelAt, disk, mtimeOrder, sessionFile,
                   stopSaving, asPc, flags, pc, runNo, itemIdx, failBudget, putLog,
                   loaded, vmCreated, runErr>>

\* ChunkPutOk without the shortening of the last chunk.
ChunkPutOkNoCap ==
    /\ pc = "exec" /\ rpc = "fn" /\ ~Parallel
    /\ cursor < Item.Size
    /\ LET n == flags.chunkSize
       IN /\ putLog' = Append(putLog, PutEntry(Item, Item.Offset + cursor, n, TRUE))
          /\ cursor' = cursor + n
          /\ session' = <<UpdateFileProgress(session[1], Item.Name, cursor + n)>>
    /\ UNCHANGED <<lockVars, callVars, parseVars, retryVars, disk, mtimeOrder, sessionFile, stopSaving, asPc,
                   flags, pc, runNo, itemIdx, par, failBudget, loaded, vmCreated, runErr>>

\* uploadFromOVAChunkedQuiet: the next chunk is PUT and acknowledged; the cursor
\* advances and the progress callback reports it to the tracker.
ChunkPutOk ==
    /\ pc = "exec" /\ rpc = "fn" /\ ~Parallel
    /\ cursor < Item.Size
    /\ LET n == IF cursor + flags.chunkSize > Item.Size THEN Item.Size - cursor
                ELSE flags.chunkSize
       IN /\ putLog' = Append(putLog, PutEntry(Item, Item.Offset + cursor, n, TRUE))
          /\ cursor' = cursor + n
          /\ session' = <<UpdateFileProgress(session[1], Item.Name, cursor + n)>>
    /\ UNCHANGED <<lockVars, callVars, parseVars, retryVars, disk, mtimeOrder, sessionFile, stopSaving, asPc,
                   flags, pc, runNo, itemIdx, par, failBudget, loaded, vmCreated, runErr>>

\* uploadFromOVAChunkedQuiet: the next chunk's PUT fails; the call returns
\* "failed to upload chunk at offset %d: %w" to the retry manager.
ChunkPutFail ==
    /\ pc = "exec" /\ rpc = "fn" /\ ~Parallel
    /\ cursor < Item.Size
    /\ failBudget > 0
    /\ \E kind \in RunFailKinds, draw \in RunDraws, conv \in Convs :
          LET n == IF cursor + flags.chunkSize > Item.Size THEN Item.Size - cursor
                   ELSE flags.chunkSize
              err == <<"failed to upload chunk at offset ">> \o Digits(cursor) \o <<": ">>
                     \o ChunkErr(kind)
          IN /\ putLog' = Append(putLog, PutEntry(Item, Item.Offset + cursor, n, FALSE))
             /\ RetryFnErr(err, draw, conv)
    /\ failBudget' = failBudget - 1
    /\ UNCHANGED <<lockVars, callVars, parseVars, cfg, rm, ctxDone, cancelAt, trackerVars, flags, pc, runNo, itemIdx,
                   cursor, par, loaded, vmCreated, runErr>>

\* uploadFromOVAChunkedQuiet: every byte is sent; the call returns nil.
UploadDone ==
    /\ pc = "exec" /\ ~Parallel
    /\ cursor >= Item.Size
    /\ RetryFnOk
    /\ UNCHANGED <<lockVars, callVars, parseVars, cfg, rm, ctxDone, cancelAt, trackerVars, runVars>>


\* uploadFromOVAParallel, a worker: take the next range off the queue, PUT it,
\* send the result; an acknowledged chunk is then reported under progressMutex.
WorkerPut(i) ==
    /\ pc = "exec" /\ rpc = "fn" /\ Parallel
    /\ par.w[i].st = "take"
    /\ par.queue # <<>>
    /\ LET work == Head(par.queue)
       IN \E kind \in {"ok"} \cup (IF failBudget > 0 THEN RunFailKinds ELSE {}) :
             /\ putLog' = Append(putLog, PutEntry(Item, work.ovaOffset, work.chunkSize, kind = "ok"))
             /\ failBudget' = IF kind = "ok" THEN failBudget ELSE failBudget - 1
             /\ par' = [par EXCEPT
                          !.queue = Tail(@),
                          !.results = Append(@, [chunkNumber |-> work.chunkNumber,
                                                 err |-> IF kind = "ok" THEN <<>> ELSE <<ChunkErr(kind)>>,
                                                 size |-> work.chunkSize]),
                          !.w[i] = IF kind = "ok" THEN [st |-> "progress", size |-> work.chunkSize]
                                   ELSE @]
    /\ UNCHANGED <<lockVars, callVars, parseVars, retryVars, trackerVars, flags, pc, runNo, itemIdx, cursor, loaded,
                   vmCreated, runErr>>

WorkerProgress(i) ==
    /\ pc = "exec" /\ rpc = "fn" /\ Parallel
    /\ par.w[i].st = "progress"
    /\ par' = [par EXCEPT !.completedBytes = @ + par.w[i].size,
                          !.w[i] = [st |-> "take", size |-> 0]]
    /\ session' = <<UpdateFileProgress(session[1], Item.Name,
                                       par.completedBytes + par.w[i].size)>>
    /\ UNCHANGED <<lockVars, callVars, parseVars, retryVars, disk, mtimeOrder, sessionFile, stopSaving, asPc,
                   flags, pc, runNo, itemIdx, cursor, failBudget, putLog, loaded, vmCreated, runErr>>

\* The work queue is closed and empty: the worker's range loop ends.
WorkerExit(i) ==
    /\ pc = "exec" /\ rpc = "fn" /\ Parallel
    /\ par.w[i].st = "take"
    /\ par.queue = <<>>
    /\ par' = [par EXCEPT !.w[i].st = "exit"]
    /\ UNCHANGED <<lockVars, callVars, parseVars, retryVars, trackerVars, flags, pc, runNo, itemIdx, cursor,
                   failBudget, putLog, loaded, vmCreated, runErr>>

\* wg.Wait() is over: the results are collected and the first error, if any,
\* is returned to the retry manager.
ParJoin ==
    /\ pc = "exec" /\ rpc = "fn" /\ Parallel
    /\ \A i \in DOMAIN par.w : par.w[i].st = "exit"
    /\ LET e == FirstError(par.results)
       IN IF e = <<>> THEN RetryFnOk
          ELSE \E draw \in RunDraws, conv \in Convs : RetryFnErr(e[1], draw, conv)
    /\ UNCHANGED <<lockVars, callVars, parseVars, cfg, rm, ctxDone, cancelAt, trackerVars, runVars>>

\* The retry wait is over (runUpload's context is cancelled only on return).
ExecWaitElapsed ==
    /\ pc = "exec"
    /\ RetryWaitElapsed
    /\ UNCHANGED <<lockVars, callVars, parseVars, cfg, rm, ctxDone, cancelAt, trackerVars, runVars>>

\* ExecReturn that goes on to the next file whatever ExecuteWithProgress returned.
ExecReturnContinue ==
    /\ pc = "exec" /\ rpc = "done"
    /\ session' = IF execResult[1].kind = "nil"
                  THEN <<MarkFileCompleted(session[1], Item.Name)>> ELSE session
    /\ itemIdx' = itemIdx + 1
    /\ pc' = "item"
    /\ runErr' = runErr
    /\ UNCHANGED <<lockVars, callVars, parseVars, retryVars, disk, mtimeOrder, sessionFile, stopSaving, asPc,
                   flags, runNo, cursor, par, failBudget, putLog, loaded, vmCreated>>

\* ExecuteWithProgress returned: an error ends the run, nil marks the file
\* completed and moves on to the next one.
ExecReturn ==
    /\ pc = "exec" /\ rpc = "done"
    /\ IF execResult[1].kind = "nil"
       THEN /\ session' = <<MarkFileCompleted(session[1], Item.Name)>>
            /\ itemIdx' = itemIdx + 1
            /\ pc' = "item"
            /\ runErr' = runErr
       ELSE /\ Return("failed to upload after retries")
            /\ UNCHANGED <<session, itemIdx>>
    /\ UNCHANGED <<lockVars, callVars, parseVars, retryVars, disk, mtimeOrder, sessionFile, stopSaving, asPc,
                   flags, runNo, cursor, par, failBudget, putLog, loaded, vmCreated>>

\* ExtractOVFContent and ImportVMFromOVF: the VM is created, or either fails.
RunCreate ==
    /\ pc = "create"
    /\ \E ok \in BOOLEAN :
          IF ok
          THEN /\ vmCreated' = runNo
               /\ pc' = "delete"
               /\ runErr' = runErr
          ELSE /\ Return("failed to create VM from OVF")
               /\ vmCreated' = vmCreated
    /\ UNCHANGED <<lockVars, callVars, parseVars, retryVars, trackerVars, flags, runNo, itemIdx, cursor, par,
                   failBudget, putLog, loaded>>

\* tracker.Delete: Close (close(stopSaving), then the final Save) ...
DeleteClose ==
    /\ pc = "delete"
    /\ stopSaving' = "closed"
    /\ disk' = [disk EXCEPT ![sessionFile] = <<Marshal(session[1])>>]
    /\ mtimeOrder' = Touch(mtimeOrder, sessionFile)
    /\ pc' = "remove"
    /\ UNCHANGED <<lockVars, callVars, parseVars, retryVars, session, sessionFile, asPc, flags, runNo,
                   itemIdx, cursor, par, failBudget, putLog, loaded, vmCreated, runErr>>

\* ... then os.Remove(sessionFile); runUpload returns nil.
DeleteRemove ==
    /\ pc = "remove"
    /\ disk' = [disk EXCEPT ![sessionFile] = NoFile]
    /\ mtimeOrder' = SelectSeq(mtimeOrder, LAMBDA x : x # sessionFile)
    /\ Return("")
    /\ UNCHANGED <<lockVars, callVars, parseVars, retryVars, session, sessionFile, stopSaving, asPc, flags,
                   runNo, itemIdx, cursor, par, failBudget, putLog, loaded, vmCreated>>

\* The process ends after runUpload returned: its memory and goroutines are gone,
\* the files stay.
ProcessExit ==
    /\ pc = "returned"
    /\ pc' = "exited"
    /\ pkg' = <<>>
    /\ session' = <<>>
    /\ asPc' = "none"
    /\ stopSaving' = "open"
    /\ par' = ParIdle
    /\ cursor' = 0
    /\ itemIdx' = 0
    /\ attempt' = 0 /\ rpc' = "idle" /\ lastErr' = <<>> /\ delay' = 0 /\ execResult' = NoResult
    /\ opCalls' = 0 /\ opHist' = {} /\ cbLog' = <<>>
    /\ UNCHANGED <<lockVars, callVars, archive, cfg, rm, ctxDone, cancelAt, disk, mtimeOrder, sessionFile, flags,
                   runNo, failBudget, putLog, loaded, vmCreated, runErr>>

\* The program is started again on the same directory.
NewRun ==
    /\ pc = "exited"
    /\ runNo < MaxRuns
    /\ runNo' = runNo + 1
    /\ pc' = "start"
    /\ putLog' = <<>>
    /\ loaded' = <<>>
    /\ runErr' = ""
    /\ flags' = NoFlags
    /\ UNCHANGED <<lockVars, callVars, parseVars, retryVars, trackerVars, itemIdx, cursor, par, failBudget, vmCreated>>

\* autoSaveLoop: the ticker fires and Save writes the session to its file.
AutoSave ==
    /\ asPc = "select"
    /\ disk' = [disk EXCEPT ![sessionFile] = <<Marshal(session[1])>>]
    /\ mtimeOrder' = Touch(mtimeOrder, sessionFile)
    /\ UNCHANGED <<lockVars, callVars, parseVars, retryVars, session, sessionFile, stopSaving, asPc, runVars>>

\* autoSaveLoop: the closed stopSaving channel is selected and the loop returns.
AutoSaveStop ==
    /\ asPc = "select"
    /\ stopSaving = "closed"
    /\ asPc' = "stopped"
    /\ UNCHANGED <<lockVars, callVars, parseVars, retryVars, disk, mtimeOrder, session, sessionFile, stopSaving,
                   runVars>>

----
(* The upload runs: the default specification *)

\* The containers the runs are given: an OVF, an optional manifest recording the
\* right or a wrong hash for d1.vmdk, and one or two VMDKs.
Manifests ==
    { <<>>,
      <<Rec("vm.mf", "reg", BlockSize, "mm", << <<"d1.vmdk", "AA">> >>)>>,
      <<Rec("vm.mf", "reg", BlockSize, "mm", << <<"d1.vmdk", "bb">> >>)>> }

RunArchives ==
    { <<Rec("vm.ovf", "reg", 1, "oo", <<>>)>> \o m \o <<Rec("d1.vmdk", "reg", MaxPayload, "aa", <<>>)>> :
        m \in Manifests }
    \cup { <<Rec("vm.ovf", "reg", 1, "oo", <<>>), Rec("d1.vmdk", "reg", MaxPayload, "aa", <<>>),
             Rec("d2.vmdk", "reg", 1, "cc", <<>>)>> }

\* The tracker's mutex is free and no goroutine is in a call of the tracker.
LockIdle ==
    /\ mutex = [readers |-> 0, writer |-> "none"]
    /\ thr = [main |-> "idle", call |-> "", monitor |-> "idle", progress |-> "idle"]

RetryIdle ==
    /\ cfg = RunRetryConfig(0)
    /\ rm = NewRetryManager(RunRetryConfig(0))
    /\ attempt = 0 /\ rpc = "idle" /\ lastErr = <<>> /\ delay = 0 /\ execResult = NoResult
    /\ ctxDone = FALSE /\ opCalls = 0 /\ opHist = {} /\ cancelAt = 0 /\ cbLog = <<>>

TrackerIdle ==
    /\ disk = [id \in SessionIDs |-> NoFile]
    /\ mtimeOrder = <<>>
    /\ session = <<>>
    /\ sessionFile = SessionIDOfRun(1)
    /\ stopSaving = "open"
    /\ asPc = "none"
    /\ lastCall = <<>>
    /\ snapshot = <<>>

RunIdle ==
    /\ flags = NoFlags
    /\ pc = "idle"
    /\ runNo = 0
    /\ itemIdx = 0
    /\ cursor = 0
    /\ par = ParIdle
    /\ failBudget = 0
    /\ putLog = <<>>
    /\ loaded = <<>>
    /\ vmCreated = 0
    /\ runErr = ""

Init ==
    /\ archive \in RunArchives
    /\ LockIdle
    /\ pkg = <<>>
    /\ RetryIdle
    /\ TrackerIdle
    /\ flags = NoFlags
    /\ pc = "start"
    /\ runNo = 1
    /\ itemIdx = 0
    /\ cursor = 0
    /\ par = ParIdle
    /\ failBudget = MaxFailures
    /\ putLog = <<>>
    /\ loaded = <<>>
    /\ vmCreated = 0
    /\ runErr = ""

Next ==
    \/ RunStart
    \/ RunParse
    \/ RunConnect
    \/ ItemNext
    \/ ExecAttempt
    \/ ChunkPutOk
    \/ ChunkPutFail
    \/ UploadDone
    \/ \E i \in 1..MaxWorkers : i \in DOMAIN par.w /\ WorkerPut(i)
    \/ \E i \in 1..MaxWorkers : i \in DOMAIN par.w /\ WorkerProgress(i)
    \/ \E i \in 1..MaxWorkers : i \in DOMAIN par.w /\ WorkerExit(i)
    \/ ParJoin
    \/ ExecWaitElapsed
    \/ ExecReturn
    \/ RunCreate
    \/ DeleteClose
    \/ DeleteRemove
    \/ ProcessExit
    \/ NewRun
    \/ AutoSave
    \/ AutoSaveStop

Spec == Init /\ [][Next]_vars

----
(* pkg/ova alone: ParseOVA over bounded containers *)

\* Records per container, and the sizes an entry takes: empty, one byte, one
\* block, one block and a byte.
MaxRecords == 3
ParseSizes == {0, 1, BlockSize, BlockSize + 1}

ParseRecords ==
    { Rec("vm.ovf", "reg", s, "oo", <<>>) : s \in ParseSizes }
    \cup { Rec("d1.vmdk", "reg", s, "aa", <<>>) : s \in ParseSizes }
    \cup { Rec("D3.VMDK", "reg", s, "cc", <<>>) : s \in ParseSizes }
    \cup { Rec("vm.mf", "reg", s, "mm", IF s < BlockSize THEN <<>> ELSE << <<"d1.vmdk", "AA">> >>) :
              s \in ParseSizes }
    \cup { Rec("sub", "dir", 0, "", <<>>), Rec("d2.vmdk", "dir", 0, "", <<>>) }

\* Containers of up to MaxRecords records with distinct names.
ParseArchives ==
    UNION { { ar \in [1..n -> ParseRecords] :
                \A i, j \in 1..n : i # j => ar[i].name # ar[j].name } : n \in 1..MaxRecords }

InitParse ==
    /\ archive \in ParseArchives
    /\ LockIdle
    /\ pkg = <<>>
    /\ RetryIdle
    /\ TrackerIdle
    /\ RunIdle

\* ParseOVA is called on the container.
ParseCall ==
    /\ pc = "idle"
    /\ pkg = <<>>
    /\ pkg' = <<ParseOVA(archive)>>
    /\ UNCHANGED <<lockVars, callVars, archive, retryVars, trackerVars, runVars>>

\* The hashes a caller may have put on an entry.
ParseHashes == {"", "aa", "AA", "bb", "da39"}

\* The entries ValidateFileChecksum is called with: an entry of the package, or
\* an entry a caller built for a regular record with the position of its data,
\* with any of the hashes.
ParseDescriptors(ar, p) ==
    { [p.VMDKFiles[k] EXCEPT !.SHA1Hash = h] : k \in 1..Len(p.VMDKFiles), h \in ParseHashes }
    \cup { OVAFile(ar[i].name, ar[i].size, DataStart(ar, i), h) :
              i \in {j \in 1..Len(ar) : ar[j].typeflag = "reg"}, h \in ParseHashes }

\* ValidateFileChecksum is called on an entry.
ParseValidate ==
    /\ pc = "idle"
    /\ pkg # <<>> /\ pkg[1].err = ""
    /\ \E f \in ParseDescriptors(archive, pkg[1].p) :
          lastCall' = <<"ValidateFileChecksum", f, ValidateFileChecksum(archive, f)>>
    /\ pc' = "validated"
    /\ UNCHANGED <<lockVars, snapshot, parseVars, retryVars, trackerVars, flags, runNo, itemIdx, cursor, par,
                   failBudget, putLog, loaded, vmCreated, runErr>>

NextParse == ParseCall \/ ParseValidate

SpecParse == InitParse /\ [][NextParse]_vars

----
(* pkg/retry alone: calculateDelay over bounded configurations *)

\* The attempt numbers a delay is computed for.
MaxDelayAttempt == 8

DelayConfigs ==
    { Config(0, b, m, f, j, <<>>) :
        b \in {0, 1 * Second, 2 * Second},
        m \in {0, 2 * Second, 2 * Minute},
        f \in {Frac(0, 1), Frac(3, 2), Frac(4, 1)},
        j \in {Frac(0, 1), Frac(2, 10), Frac(1, 1)} }

InitDelay ==
    /\ archive = <<>>
    /\ LockIdle
    /\ pkg = <<>>
    /\ cfg \in DelayConfigs
    /\ rm = NewRetryManager(cfg)
    /\ attempt = 0 /\ rpc = "idle" /\ lastErr = <<>> /\ delay = 0 /\ execResult = NoResult
    /\ ctxDone = FALSE /\ opCalls = 0 /\ opHist = {} /\ cancelAt = 0 /\ cbLog = <<>>
    /\ TrackerIdle
    /\ RunIdle

\* calculateDelay(attempt) is called on the manager.
DelayCall ==
    /\ pc = "idle"
    /\ \E n \in 1..MaxDelayAttempt, draw \in Draws, conv \in Convs :
          /\ attempt' = n
          /\ delay' = calculateDelay(rm, n, draw, conv)
    /\ rpc' = "wait"
    /\ UNCHANGED <<lockVars, callVars, parseVars, cfg, rm, lastErr, execResult, ctxDone, opCalls, opHist, cancelAt,
                   cbLog, trackerVars, runVars>>

NextDelay == DelayCall

SpecDelay == InitDelay /\ [][NextDelay]_vars

----
(* pkg/retry alone: Execute against an operation and a cancellable context *)

RetryConfigs ==
    { Config(n, 2 * Second, 2 * Minute, Frac(3, 2), j, pats) :
        n \in 0..3, j \in {Frac(2, 10), Frac(1, 1)}, pats \in {<<>>, RunRetryableErrors} }

InitRetry ==
    /\ archive = <<>>
    /\ LockIdle
    /\ pkg = <<>>
    /\ cfg \in RetryConfigs
    /\ rm = NewRetryManager(cfg)
    /\ attempt = 0 /\ rpc = "idle" /\ lastErr = <<>> /\ delay = 0 /\ execResult = NoResult
    /\ ctxDone = FALSE /\ opCalls = 0 /\ opHist = {} /\ cancelAt = 0 /\ cbLog = <<>>
    /\ TrackerIdle
    /\ RunIdle

ExecuteCall ==
    /\ pc = "idle" /\ rpc = "idle"
    /\ RetryBegin
    /\ UNCHANGED <<lockVars, callVars, parseVars, cfg, rm, ctxDone, cancelAt, trackerVars, runVars>>

ExecuteAttempt ==
    /\ pc = "idle"
    /\ RetryAttempt
    /\ UNCHANGED <<lockVars, callVars, parseVars, cfg, rm, ctxDone, opHist, cancelAt, trackerVars, runVars>>

ExecuteFnOk ==
    /\ pc = "idle"
    /\ RetryFnOk
    /\ UNCHANGED <<lockVars, callVars, parseVars, cfg, rm, ctxDone, cancelAt, trackerVars, runVars>>

ExecuteFnErr ==
    /\ pc = "idle"
    /\ \E kind \in FailKinds, draw \in {Frac(-1, 1), Frac(1, 2)}, conv \in Convs :
          RetryFnErr(ChunkErr(kind), draw, conv)
    /\ UNCHANGED <<lockVars, callVars, parseVars, cfg, rm, ctxDone, cancelAt, trackerVars, runVars>>

ExecuteWaitElapsed ==
    /\ pc = "idle"
    /\ RetryWaitElapsed
    /\ UNCHANGED <<lockVars, callVars, parseVars, cfg, rm, ctxDone, cancelAt, trackerVars, runVars>>

ExecuteWaitCancelled ==
    /\ pc = "idle"
    /\ RetryWaitCancelled
    /\ UNCHANGED <<lockVars, callVars, parseVars, cfg, rm, ctxDone, cancelAt, trackerVars, runVars>>

\* The caller cancels the context while Execute runs; cancelAt keeps the wait it
\* fell in, if it fell in one.
CtxCancel ==
    /\ pc = "idle"
    /\ rpc \in {"attempt", "fn", "wait"}
    /\ ~ctxDone
    /\ ctxDone' = TRUE
    /\ cancelAt' = IF rpc = "wait" THEN attempt ELSE 0
    /\ UNCHANGED <<lockVars, callVars, parseVars, cfg, rm, attempt, rpc, lastErr, delay, execResult, opCalls, opHist,
                   cbLog, trackerVars, runVars>>

NextRetry ==
    \/ ExecuteCall
    \/ ExecuteAttempt
    \/ ExecuteFnOk
    \/ ExecuteFnErr
    \/ ExecuteWaitElapsed
    \/ ExecuteWaitCancelled
    \/ CtxCancel

SpecRetry == InitRetry /\ [][NextRetry]_vars

----
(* The claims *)

\* The entries a package records, and the record of the container an entry names.
ParseEntries(p) == p.OVFFile \o p.VMDKFiles \o p.ManifestFile \o p.CertFile

RecIndex(ar, name) == CHOOSE i \in 1..Len(ar) : ar[i].name = name

\* C1: for every entry ParseOVA records, the Size bytes of the container file
\* that start at the recorded Offset are exactly the entry's data, byte for
\* byte, whatever records (with their header blocks and padding) precede it.
C1_OffsetIsAbsolutePosition ==
    (pkg # <<>> /\ pkg[1].err = "") =>
        \A f \in Range(ParseEntries(pkg[1].p)) :
            \A k \in 0..(f.Size - 1) :
                ByteAt(archive, f.Offset + k) = <<RecIndex(archive, f.Name), k>>

\* C2: an item the session file loaded by a resuming run has as completed is
\* skipped by that run: no chunk PUT is issued for it and the tracker keeps it
\* completed.
C2_CompletedItemSkipped ==
    \A n \in (IF loaded = <<>> THEN {} ELSE DOMAIN loaded[1].Files) :
        loaded[1].Files[n].IsCompleted =>
            /\ \A k \in 1..Len(putLog) : putLog[k].item # n
            /\ (session # <<>> /\ HasFile(session[1], n)) => session[1].Files[n].IsCompleted

\* C3: a fresh single-threaded run over one payload of size S with chunk size C,
\* in which exactly one chunk PUT failed (with a retryable error), returns nil
\* with the item's UploadedSize = S, its ChunksUploaded = ceil(S/C), the
\* session's RetryAttempts = 1 and no session file on disk.
C3_OneFailureScenario ==
    (/\ pc = "returned" /\ runErr = "" /\ runNo = 1 /\ loaded = <<>>
     /\ ~Parallel
     /\ Len(VMDKs) = 1
     /\ Cardinality({k \in 1..Len(putLog) : ~putLog[k].ok}) = 1)
    => LET f == session[1].Files[VMDKs[1].Name]
       IN /\ f.UploadedSize = VMDKs[1].Size
          /\ f.ChunksUploaded = (VMDKs[1].Size + flags.chunkSize - 1) \div flags.chunkSize
          /\ session[1].RetryAttempts = 1
          /\ disk[sessionFile] = NoFile

\* C4: with a ceiling maxRetries = N >= 1 and an operation that has failed with
\* a retryable error every time, Execute never invokes the operation more than
\* N times, returns a cancellation error only if the context was cancelled, and,
\* the context live, returns only after exactly N invocations, with the
\* exhaustion error that carries N and the last error of the operation.
C4_ExhaustionAfterN ==
    (rm.maxRetries >= 1 /\ opHist \subseteq {"retryable"}) =>
        /\ opCalls <= rm.maxRetries
        /\ (rpc = "done" /\ execResult[1].kind = "cancelled") => ctxDone
        /\ (rpc = "done" /\ ~ctxDone) =>
               /\ execResult = Returned("failed", rm.maxRetries, lastErr[1])
               /\ opCalls = rm.maxRetries

C4_Witness ==
    /\ rm.maxRetries = 3 /\ opHist = {"retryable"} /\ ~ctxDone
    /\ rpc = "done" /\ opCalls = 3
    /\ execResult = Returned("failed", 3, lastErr[1])

\* C5: with MaxRetries configured as 0 (unbounded) and an operation that has
\* failed with a retryable error every time, Execute never returns the
\* exhaustion error; once the context is cancelled during the k-th wait, the
\* operation has been invoked exactly k times and is not invoked again, and
\* Execute leaves the wait only by returning the cancellation error.
C5_UnboundedUntilCancelled ==
    (cfg.MaxRetries = 0 /\ opHist \subseteq {"retryable"}) =>
        /\ (rpc = "done" => execResult[1].kind # "failed")
        /\ cancelAt >= 1 =>
               /\ opCalls = cancelAt
               /\ rpc \in {"wait", "done"}
               /\ rpc = "done" => execResult = Returned("cancelled", cancelAt, <<>>)

C5_Witness ==
    /\ cfg.MaxRetries = 0 /\ opHist = {"retryable"}
    /\ cancelAt = 2 /\ opCalls = 2
    /\ rpc = "done" /\ execResult = Returned("cancelled", 2, <<>>)

\* C6: every delay calculateDelay returns is >= 0 and <= the manager's maximum
\* delay, for every configuration, attempt number and jitter draw.
C6_DelayWithinBounds ==
    rpc = "wait" => (delay >= 0 /\ delay <= rm.maxDelay)

\* min(maxDelay, base * factor^(n-1)), truncated to a Duration.
ClampedBackoff(m, n) ==
    LET b == Backoff(m.baseDelay, m.backoffFactor, n - 1)
    IN IF b = <<>> THEN m.maxDelay ELSE Min(m.maxDelay, TruncDiv(b[1], b[2]))

\* C7: a manager built from a configuration with JitterRange = 0 returns, for
\* attempt n, exactly min(maxDelay, base * factor^(n-1)), whatever is drawn.
C7_ZeroJitterDeterministic ==
    (rpc = "wait" /\ cfg.JitterRange[1] = 0) => delay = ClampedBackoff(rm, attempt)

\* The container's manifest records for some VMDK a hash that is not the hash of
\* the VMDK's data.
ManifestMismatch(ar) ==
    \E i, j \in 1..Len(ar) :
        /\ Ext(ar[i].name) = ".mf" /\ Ext(ar[j].name) = ".vmdk"
        /\ \E k \in 1..Len(ar[i].lines) :
              ar[i].lines[k][1] = ar[j].name /\ ToLower(ar[i].lines[k][2]) # ar[j].sum

\* C8: a run over a container whose manifest records a wrong checksum for a
\* payload uploads no chunk and creates no VM.
C8_ChecksumMismatchAborts ==
    ManifestMismatch(archive) => (putLog = <<>> /\ vmCreated = 0)

\* C9: within a run, no step lowers the session's UploadedSize or the
\* UploadedSize of any of its files.
C9_UploadedSizeNeverDecreases ==
    [][(session # <<>> /\ session' # <<>>) =>
          /\ session'[1].UploadedSize >= session[1].UploadedSize
          /\ \A n \in DOMAIN session[1].Files :
                n \in DOMAIN session'[1].Files =>
                    session'[1].Files[n].UploadedSize >= session[1].Files[n].UploadedSize]_vars

\* The PUTs of earlier attempts at the same item of the same run that the
\* endpoint acknowledged.
AckedBefore(k) ==
    {j \in 1..(k - 1) : /\ putLog[j].run = putLog[k].run /\ putLog[j].idx = putLog[k].idx
                        /\ putLog[j].att < putLog[k].att /\ putLog[j].ok}

\* C10: a single-threaded attempt never PUTs again a chunk an earlier attempt
\* at the item had acknowledged, and its first PUT reads where the acknowledged
\* bytes end.
C10_RetryContinuesFromRecordedOffset ==
    \A k \in 1..Len(putLog) :
        (~putLog[k].par /\ AckedBefore(k) # {}) =>
            /\ \A j \in AckedBefore(k) : putLog[k].off # putLog[j].off
            /\ (\A i \in 1..(k - 1) : \/ putLog[i].run # putLog[k].run
                                      \/ putLog[i].idx # putLog[k].idx
                                      \/ putLog[i].att # putLog[k].att) =>
                   \E j \in AckedBefore(k) :
                       /\ putLog[k].off = putLog[j].off + putLog[j].n
                       /\ \A i \in AckedBefore(k) : putLog[i].off <= putLog[j].off

\* C11: while the run deletes its session file (Delete is past Close and about
\* to remove the file), the session's IsCompleted flag is true and the VM was
\* created in this run.
C11_DeleteOnlyWhenCompleted ==
    pc = "remove" => (session[1].IsCompleted /\ vmCreated = runNo)

\* C12: when the process of a run that aborted on a failed upload ends, every
\* file the tracker has as completed is completed in the session file on disk.
C12_AbortLeavesCompletedPersisted ==
    [][(pc = "returned" /\ pc' = "exited" /\ runErr = "failed to upload after retries") =>
          \A n \in DOMAIN session[1].Files :
              session[1].Files[n].IsCompleted =>
                  /\ disk[sessionFile] # NoFile
                  /\ HasFile(Unmarshal(disk[sessionFile][1]), n)
                  /\ Unmarshal(disk[sessionFile][1]).Files[n].IsCompleted]_vars

\* The last attempt made at VMDK i in this run has a failed chunk PUT.
LastAttemptFailed(i) ==
    \E k \in 1..Len(putLog) :
        /\ putLog[k].idx = i /\ ~putLog[k].ok
        /\ \A j \in 1..Len(putLog) : putLog[j].idx = i => putLog[j].att <= putLog[k].att

\* C13: the chunk PUTs of a run follow the order of the VMDKs in the package,
\* one VMDK at a time; while the last attempt at VMDK i has a failed PUT, and
\* once the run has returned the upload error for VMDK i, no PUT was issued for
\* a later VMDK, VMDK i is not completed in the tracker and no VM was created in
\* the run.
C13_StopAtFirstFailedItem ==
    /\ \A j, k \in 1..Len(putLog) : j < k => putLog[j].idx <= putLog[k].idx
    /\ \A k \in 1..Len(putLog) :
          pkg # <<>> => putLog[k].item = VMDKs[putLog[k].idx].Name
    /\ \A i \in 1..(IF pkg = <<>> THEN 0 ELSE Len(VMDKs)) :
          (\/ LastAttemptFailed(i)
           \/ (pc = "returned" /\ runErr = "failed to upload after retries" /\ itemIdx = i))
          => /\ \A k \in 1..Len(putLog) : putLog[k].idx <= i
             /\ ~session[1].Files[VMDKs[i].Name].IsCompleted
             /\ vmCreated # runNo

C13_Witness ==
    /\ pc = "returned" /\ runErr = "failed to upload after retries"
    /\ itemIdx = 1 /\ Len(VMDKs) = 2
    /\ execResult[1].kind = "failed"
    /\ \E k \in 1..Len(putLog) : putLog[k].ok

\* C14: once Delete has returned at the end of a run, the session file does not
\* exist, as long as no later run creates it.
C14_NoFileAfterDelete ==
    (pc \in {"returned", "exited"} /\ runErr = "" /\ vmCreated = runNo) =>
        disk[sessionFile] = NoFile

----
(* pkg/progress alone: a caller's calls on one tracker *)

\* The names and sizes the caller registers, and the most the session's
\* TotalSize is let grow to.
MaxSessionTotal == 4
TrackerNames == {"vm.ovf", "d1.vmdk"}
TrackerSizes == {1, 2}

InitTracker ==
    /\ archive = <<>>
    /\ LockIdle
    /\ pkg = <<>>
    /\ RetryIdle
    /\ disk = [id \in SessionIDs |-> NoFile]
    /\ mtimeOrder = <<>>
    /\ session = <<NewSession(SessionIDOfRun(1), "ds", "vm")>>
    /\ sessionFile = SessionIDOfRun(1)
    /\ stopSaving = "open"
    /\ asPc = "none"
    /\ lastCall = <<>>
    /\ snapshot = <<>>
    /\ RunIdle

AddFileCall(names, sizes) ==
    /\ pc = "idle"
    /\ \E n \in names, size \in sizes :
          /\ session[1].TotalSize + size <= MaxSessionTotal
          /\ session' = <<AddFile(session[1], n, size, IF n = "d1.vmdk" THEN "aa" ELSE "")>>
          /\ lastCall' = <<"AddFile", n, size>>
          /\ snapshot' = SnapshotAfter(snapshot, session'[1])
    /\ UNCHANGED <<lockVars, parseVars, retryVars, disk, mtimeOrder, sessionFile, stopSaving, asPc, runVars>>

TrAddFile == AddFileCall(TrackerNames, TrackerSizes)

\* UpdateFileProgress with a value between 0 and the file's TotalSize.
TrUpdateFileProgress ==
    /\ pc = "idle"
    /\ \E n \in DOMAIN session[1].Files :
          \E v \in 0..session[1].Files[n].TotalSize :
              /\ session' = <<UpdateFileProgress(session[1], n, v)>>
              /\ lastCall' = <<"UpdateFileProgress", n, v>>
              /\ snapshot' = SnapshotAfter(snapshot, session'[1])
    /\ UNCHANGED <<lockVars, parseVars, retryVars, disk, mtimeOrder, sessionFile, stopSaving, asPc, runVars>>

MarkFileCompletedCall(names) ==
    /\ pc = "idle"
    /\ \E n \in names :
          /\ session' = <<MarkFileCompleted(session[1], n)>>
          /\ lastCall' = <<"MarkFileCompleted", n>>
          /\ snapshot' = SnapshotAfter(snapshot, session'[1])
    /\ UNCHANGED <<lockVars, parseVars, retryVars, disk, mtimeOrder, sessionFile, stopSaving, asPc, runVars>>

TrMarkFileCompleted == MarkFileCompletedCall(TrackerNames)

\* Save, then LoadTracker on the file: the session is the one the file holds.
TrReload ==
    /\ pc = "idle"
    /\ lastCall # <<>> /\ lastCall[1] # "LoadTracker"
    /\ disk' = [disk EXCEPT ![sessionFile] = <<Marshal(session[1])>>]
    /\ mtimeOrder' = Touch(mtimeOrder, sessionFile)
    /\ session' = <<Unmarshal(disk'[sessionFile][1])>>
    /\ lastCall' = <<"LoadTracker">>
    /\ snapshot' = snapshot
    /\ UNCHANGED <<lockVars, parseVars, retryVars, sessionFile, stopSaving, asPc, runVars>>

NextTracker ==
    \/ TrAddFile
    \/ TrUpdateFileProgress
    \/ TrMarkFileCompleted
    \/ TrReload

SpecTracker == InitTracker /\ [][NextTracker]_vars

\* The sum of a field's values over the session's files.
RECURSIVE SumFiles(_, _, _)
SumFiles(files, names, field) ==
    IF names = {} THEN 0
    ELSE LET n == CHOOSE x \in names : TRUE
         IN files[n][field] + SumFiles(files, names \ {n}, field)

\* C15: every registered file has UploadedSize <= TotalSize, and UploadedSize =
\* TotalSize when it is completed, after any calls with values within 0..TotalSize.
C15_ItemInvariant ==
    \A n \in DOMAIN session[1].Files :
        LET f == session[1].Files[n]
        IN /\ f.UploadedSize <= f.TotalSize
           /\ f.IsCompleted => f.UploadedSize = f.TotalSize

\* C16: the session's TotalSize is the sum of the files' TotalSize and its
\* UploadedSize the sum of the files' UploadedSize.
C16_AggregateIsSum ==
    /\ session[1].TotalSize = SumFiles(session[1].Files, DOMAIN session[1].Files, "TotalSize")
    /\ session[1].UploadedSize = SumFiles(session[1].Files, DOMAIN session[1].Files, "UploadedSize")

\* C17: the session's UploadedSize never exceeds the sum of the files' TotalSize.
C17_AggregateWithinTotal ==
    session[1].UploadedSize <= SumFiles(session[1].Files, DOMAIN session[1].Files, "TotalSize")

\* C18: right after MarkFileCompleted(name) on a registered file, the file has
\* UploadedSize = TotalSize and is completed, and a second MarkFileCompleted(name)
\* would change nothing.
C18_MarkForcesComplete ==
    (lastCall # <<>> /\ lastCall[1] = "MarkFileCompleted" /\ HasFile(session[1], lastCall[2])) =>
        LET f == session[1].Files[lastCall[2]]
        IN /\ f.UploadedSize = f.TotalSize
           /\ f.IsCompleted
           /\ MarkFileCompleted(session[1], lastCall[2]) = session[1]

\* C19: right after a MarkFileCompleted call, the session is completed exactly
\* when every registered file is completed.
C19_FlagIsConjunction ==
    (lastCall # <<>> /\ lastCall[1] = "MarkFileCompleted") =>
        (session[1].IsCompleted <=> \A n \in DOMAIN session[1].Files : session[1].Files[n].IsCompleted)

\* C20: an UpdateFileProgress(name, v) with v below the file's UploadedSize
\* leaves the session as it was.
C20_DecreaseIgnored ==
    [][(/\ lastCall' # <<>> /\ lastCall'[1] = "UpdateFileProgress"
        /\ lastCall'[3] < session[1].Files[lastCall'[2]].UploadedSize)
       => session' = session]_vars


\* The tracker with files of 1 byte, one of a name that is not valid UTF-8,
\* saved and reloaded.
NextPersist ==
    \/ AddFileCall({"d1.vmdk", "d<E9>.vmdk"}, {1})
    \/ TrUpdateFileProgress
    \/ MarkFileCompletedCall({"d1.vmdk", "d<E9>.vmdk"})
    \/ TrReload

SpecPersist == InitTracker /\ [][NextPersist]_vars

\* IncrementRetryAttempts, as many times as MaxRetryCount.
MaxRetryCount == 1

TrIncrementRetryAttempts ==
    /\ pc = "idle"
    /\ session[1].RetryAttempts < MaxRetryCount
    /\ session' = <<IncrementRetryAttempts(session[1])>>
    /\ lastCall' = <<"IncrementRetryAttempts">>
    /\ snapshot' = SnapshotAfter(snapshot, session'[1])
    /\ UNCHANGED <<lockVars, parseVars, retryVars, disk, mtimeOrder, sessionFile, stopSaving, asPc, runVars>>

\* A caller takes a snapshot with GetSession.
TrGetSession ==
    /\ pc = "idle"
    /\ snapshot # <<GetSession(session[1])>>
    /\ snapshot' = <<GetSession(session[1])>>
    /\ lastCall' = <<"GetSession">>
    /\ UNCHANGED <<lockVars, parseVars, retryVars, trackerVars, runVars>>

\* The caller writes to the snapshot it holds: it clears a file's progress
\* through the map's pointer, removes a file from the map, or counts a retry.
TrSnapshotWrite ==
    /\ pc = "idle"
    /\ snapshot # <<>>
    /\ \/ \E n \in DOMAIN snapshot[1].val.Files :
             /\ snapshot' = <<[snapshot[1] EXCEPT !.val.Files[n].UploadedSize = 0,
                                                  !.val.Files[n].IsCompleted = FALSE]>>
             /\ lastCall' = <<"SnapshotWrite", "item", n>>
       \/ \E n \in DOMAIN snapshot[1].val.Files :
             /\ snapshot' = <<[snapshot[1] EXCEPT
                                 !.val.Files = [m \in DOMAIN @ \ {n} |-> @[m]],
                                 !.sharedItems = @ \ {n}]>>
             /\ lastCall' = <<"SnapshotWrite", "delete", n>>
       \/ /\ snapshot[1].val.RetryAttempts <= MaxRetryCount
          /\ snapshot' = <<[snapshot[1] EXCEPT !.val.RetryAttempts = @ + 1]>>
          /\ lastCall' = <<"SnapshotWrite", "retryAttempts">>
    /\ snapshot' # snapshot
    /\ session' = <<SessionAfter(session[1], snapshot')>>
    /\ UNCHANGED <<lockVars, parseVars, retryVars, disk, mtimeOrder, sessionFile, stopSaving, asPc, runVars>>

\* The tracker with one file and a caller that holds a snapshot of the session.
NextSnapshot ==
    \/ AddFileCall({"d1.vmdk"}, TrackerSizes)
    \/ TrUpdateFileProgress
    \/ MarkFileCompletedCall({"d1.vmdk"})
    \/ TrIncrementRetryAttempts
    \/ TrGetSession
    \/ TrSnapshotWrite

SpecSnapshot == InitTracker /\ [][NextSnapshot]_vars

\* C21: Save followed by LoadTracker on the file gives back the session that was
\* saved: the same set of files, every file with the same FileName, TotalSize,
\* UploadedSize, ChunksTotal, ChunksUploaded, IsCompleted and SHA1Hash, and the
\* same TotalSize, UploadedSize, RetryAttempts and IsCompleted of the session.
C21_SaveLoadRoundTrip ==
    [][(lastCall' = <<"LoadTracker">>) =>
          /\ session' = session
          /\ Unmarshal(disk'[sessionFile][1]) = session[1]]_vars

\* C22: a snapshot a caller holds is not changed by a later AddFile,
\* UpdateFileProgress, MarkFileCompleted or IncrementRetryAttempts of the
\* tracker, and a write of the caller to its snapshot does not change the
\* tracker's session.
C22_SnapshotIsDeepCopy ==
    [][/\ (lastCall'[1] \in {"AddFile", "UpdateFileProgress", "MarkFileCompleted",
                             "IncrementRetryAttempts"}) => snapshot' = snapshot
       /\ (lastCall'[1] = "SnapshotWrite") => session' = session]_vars

\* The caller holds a snapshot with a file in it, the tracker has since changed
\* that file and counted a retry, and the caller has just written to the snapshot.
C22_Witness ==
    /\ snapshot # <<>>
    /\ lastCall[1] = "SnapshotWrite"
    /\ session[1].RetryAttempts > snapshot[1].val.RetryAttempts
    /\ \E n \in DOMAIN snapshot[1].val.Files :
          /\ n \in DOMAIN session[1].Files
          /\ session[1].Files[n].UploadedSize > snapshot[1].val.Files[n].UploadedSize

\* The regular records of the container with the extension ext, in archive order.
RECURSIVE RegularWithExt(_, _, _)
RegularWithExt(ar, i, ext) ==
    IF i > Len(ar) THEN <<>>
    ELSE (IF ar[i].typeflag = "reg" /\ Ext(ar[i].name) = ext THEN <<i>> ELSE <<>>)
         \o RegularWithExt(ar, i + 1, ext)

\* C23: for a container with an OVF entry and N >= 1 VMDK entries of any sizes,
\* ParseOVA returns exactly the N VMDK entries in archive order, their offsets
\* strictly increasing, and Offset + Size of a VMDK entry is at most the Offset
\* of the VMDK entry that directly follows it in the container.
C23_PayloadOffsetsIncrease ==
    (pkg # <<>> /\ pkg[1].err = "") =>
        LET idx == RegularWithExt(archive, 1, ".vmdk")
            v == pkg[1].p.VMDKFiles
        IN /\ Len(v) = Len(idx)
           /\ \A k \in 1..Len(v) : v[k].Name = archive[idx[k]].name /\ v[k].Size = archive[idx[k]].size
           /\ \A k \in 1..(Len(v) - 1) : v[k].Offset < v[k + 1].Offset
           /\ \A k \in 1..(Len(v) - 1) :
                 idx[k + 1] = idx[k] + 1 => v[k].Offset + v[k].Size <= v[k + 1].Offset

\* C24: ParseOVA fails and returns no package exactly when the container has no
\* regular record with the extension .ovf or none with the extension .vmdk;
\* otherwise the package it returns has an OVF entry and at least one VMDK entry.
C24_FailsIffRequiredEntryMissing ==
    pkg # <<>> =>
        LET missing == \/ RegularWithExt(archive, 1, ".ovf") = <<>>
                       \/ RegularWithExt(archive, 1, ".vmdk") = <<>>
        IN /\ missing => (pkg[1].err # "" /\ pkg[1].p = EmptyPackage)
           /\ ~missing => /\ pkg[1].err = ""
                          /\ pkg[1].p.OVFFile # <<>>
                          /\ Len(pkg[1].p.VMDKFiles) >= 1

\* ParseOVA has failed on a container that has an OVF entry and whose only
\* record named *.vmdk is a directory.
C24_Witness ==
    /\ pkg # <<>> /\ pkg[1].err = "no VMDK files found in OVA package"
    /\ RegularWithExt(archive, 1, ".ovf") # <<>>
    /\ \E i \in 1..Len(archive) : Ext(archive[i].name) = ".vmdk" /\ archive[i].typeflag = "dir"

\* C25: ValidateFileChecksum returns nil for an entry without a hash; for an
\* entry with a hash it returns nil when the SHA1 of the Size bytes at the
\* entry's Offset equals the hash up to the case of the letters, and otherwise
\* the error "checksum mismatch" that names the expected and the calculated hash.
C25_ValidateFileChecksum ==
    pc = "validated" =>
        LET f == lastCall[2]
            res == lastCall[3]
            actual == HashOfRange(archive, f.Offset, f.Size)
        IN /\ f.SHA1Hash = "" => res = <<>>
           /\ (f.SHA1Hash # "" /\ ToLower(actual) = ToLower(f.SHA1Hash)) => res = <<>>
           /\ (f.SHA1Hash # "" /\ ToLower(actual) # ToLower(f.SHA1Hash)) =>
                 /\ res # <<>>
                 /\ res[1] = "checksum mismatch for"
                 /\ containsSubstring(res, <<"expected", f.SHA1Hash>>)
                 /\ containsSubstring(res, <<"got", actual>>)

\* An entry whose hash is in capitals has validated against the data of
\* d1.vmdk, whose SHA1 prints in small letters.
C25_Witness ==
    /\ pc = "validated"
    /\ lastCall[2].SHA1Hash = "AA"
    /\ HashOfRange(archive, lastCall[2].Offset, lastCall[2].Size) = "aa"
    /\ lastCall[3] = <<>>

----
(* Choosing the session file for a requested id: runUpload and the resume command *)

\* Session ids (one token per digit) with a file in the working directory, in
\* the order filepath.Glob returns their paths (sorted: "1.json" < "12.json").
ResolveIDs == << <<"1">>, <<"1", "2">>, <<"2">>, <<"2", "1">> >>

\* The ids asked for: ids of files, an id no file has, and the file suffix.
RequestedIDs == Range(ResolveIDs) \cup { <<"3">>, <<".json">> }

ResolveGlob(d) == SelectSeq(ResolveIDs, LAMBDA id : d[id] # NoFile)

\* containsSessionID: the base name is ".upload-session-<id>.json".
containsSessionID(filename, sessionID) == filename = SessionPath(sessionID)

\* runResumeSession, session id given: the first file containsSessionID accepts.
ResumeSessionByID(sessions, id) ==
    LET hits == {k \in 1..Len(sessions) : containsSessionID(SessionPath(sessions[k]), id)}
    IN IF hits = {} THEN <<>>
       ELSE <<sessions[CHOOSE k \in hits : \A j \in hits : k <= j]>>

InitResolve ==
    /\ archive = <<>>
    /\ LockIdle
    /\ pkg = <<>>
    /\ RetryIdle
    /\ \E present \in SUBSET Range(ResolveIDs) :
          disk = [id \in Range(ResolveIDs) |->
                     IF id \in present THEN <<Marshal(NewSession(id, "ds", "vm"))>> ELSE NoFile]
    /\ mtimeOrder = <<>>
    /\ session = <<>>
    /\ sessionFile = <<>>
    /\ stopSaving = "open"
    /\ asPc = "none"
    /\ lastCall = <<>>
    /\ snapshot = <<>>
    /\ RunIdle

\* runUpload --resume --session-id id: the file it goes on to load.
RsRunUpload ==
    /\ lastCall = <<>>
    /\ ResolveGlob(disk) # <<>>
    /\ \E id \in RequestedIDs :
          lastCall' = <<"runUpload", id, SessionByID(ResolveGlob(disk), id)>>
    /\ UNCHANGED <<lockVars, snapshot, parseVars, retryVars, trackerVars, runVars>>

\* sessions resume --session-id id: the file it goes on to load.
RsResumeSession ==
    /\ lastCall = <<>>
    /\ ResolveGlob(disk) # <<>>
    /\ \E id \in RequestedIDs :
          lastCall' = <<"runResumeSession", id, ResumeSessionByID(ResolveGlob(disk), id)>>
    /\ UNCHANGED <<lockVars, snapshot, parseVars, retryVars, trackerVars, runVars>>

NextResolve == RsRunUpload \/ RsResumeSession

SpecResolve == InitResolve /\ [][NextResolve]_vars

\* C26: a session file chosen for a requested id is the file of exactly that
\* id, in runUpload's resume path and in the resume command; an id that is only
\* a part of another session's id or of its file name selects nothing.
C26_ExactIDMatch ==
    \A caller \in {"runUpload", "runResumeSession"} :
        (lastCall # <<>> /\ lastCall[1] = caller /\ lastCall[3] # <<>>) =>
            lastCall[3][1] = lastCall[2]

\* The resource at the destination URL of file idx of this run, for an endpoint
\* that keeps the body of each accepted PUT as the resource's content: the range
\* <<offset, length>> of the container the last accepted PUT carried, <<>> if none.
RemoteContent(log, run, idx) ==
    LET acc == {k \in 1..Len(log) : log[k].run = run /\ log[k].idx = idx /\ log[k].ok}
    IN IF acc = {} THEN <<>>
       ELSE LET k == CHOOSE j \in acc : \A i \in acc : i <= j
            IN <<log[k].off, log[k].n>>

\* C27: when the upload of a file of more than one chunk has returned nil, in
\* single-threaded or parallel mode, the resource at the file's destination URL
\* holds the Size bytes of the container from the file's Offset.
C27_WholePayloadAtDestination ==
    (/\ pc = "exec" /\ rpc = "done" /\ execResult[1].kind = "nil"
     /\ Item.Size > flags.chunkSize) =>
        RemoteContent(putLog, runNo, itemIdx) = <<Item.Offset, Item.Size>>

----
(* One call of uploadFromOVAChunkedQuiet or of uploadFromOVAParallel *)

\* int64 of the uploader's sizes, as a word of Int64Bits bits.
Int64Bits == 6
MaxInt64 == 2^(Int64Bits - 1) - 1
WrapInt64(x) == ((x + 2^(Int64Bits - 1)) % (2^Int64Bits)) - 2^(Int64Bits - 1)

UploadSizes == 0..(MaxPayload + 1)
UploadOffsets == {0, 1}
UploadChunkSizes == {1, 2, MaxInt64}

\* The call is entered: pc is "exec" for uploadFromOVAChunkedQuiet, "parallel"
\* for uploadFromOVAParallel; the retry manager has invoked it for attempt 1 and
\* the progress callback reports to a tracker that has the file registered.
InitUpload ==
    /\ archive = <<>>
    /\ LockIdle
    /\ \E size \in UploadSizes, offset \in UploadOffsets :
          /\ pkg = <<[err |-> "",
                      p |-> [EmptyPackage EXCEPT
                               !.VMDKFiles = <<OVAFile("d1.vmdk", size, offset, "")>>]]>>
          /\ session = <<AddFile(NewSession(SessionIDOfRun(1), "ds", "vm"), "d1.vmdk", size, "")>>
    /\ cfg = RunRetryConfig(0)
    /\ rm = NewRetryManager(RunRetryConfig(0))
    /\ attempt = 1 /\ rpc = "fn" /\ lastErr = <<>> /\ delay = 0 /\ execResult = NoResult
    /\ ctxDone = FALSE /\ opCalls = 1 /\ opHist = {} /\ cancelAt = 0
    /\ cbLog = << <<1, <<>>, 0>> >>
    /\ disk = [id \in SessionIDs |-> NoFile]
    /\ mtimeOrder = <<>>
    /\ sessionFile = SessionIDOfRun(1)
    /\ stopSaving = "open"
    /\ asPc = "none"
    /\ lastCall = <<>>
    /\ snapshot = <<>>
    /\ \E chunk \in UploadChunkSizes :
          \/ /\ pc = "exec"
             /\ flags = [workers |-> 1, chunkSize |-> chunk, maxRetries |-> 0]
          \/ /\ pc = "parallel"
             /\ \E workers \in (-1)..MaxWorkers :
                   flags = [workers |-> workers, chunkSize |-> chunk, maxRetries |-> 0]
    /\ par = [main |-> "entry"]
    /\ runNo = 1
    /\ itemIdx = 1
    /\ cursor = 0
    /\ failBudget \in 0..MaxFailures
    /\ putLog = <<>>
    /\ loaded = <<>>
    /\ vmCreated = 0
    /\ runErr = ""

\* totalChunks, the two channels of that capacity (make panics on a negative
\* size), and the workers, each at its range over workQueue.
UpStart ==
    /\ pc = "parallel" /\ rpc = "fn"
    /\ par.main = "entry"
    /\ LET totalChunks == TruncDiv(WrapInt64(Item.Size + flags.chunkSize - 1), flags.chunkSize)
       IN IF totalChunks < 0
          THEN par' = [main |-> "panic"]
          ELSE par' = [main |-> "queue", totalChunks |-> totalChunks, chunkNum |-> 1,
                       currentOffset |-> 0, queue |-> <<>>, closed |-> FALSE, results |-> <<>>,
                       completedBytes |-> 0,
                       w |-> [i \in 1..flags.workers |-> [st |-> "recv", work |-> <<>>]]]
    /\ UNCHANGED <<lockVars, callVars, parseVars, retryVars, trackerVars, flags, pc, runNo, itemIdx, cursor,
                   failBudget, putLog, loaded, vmCreated, runErr>>

\* The loop that queues the chunks: the next range is sent to workQueue, which
\* has room for totalChunks of them.
UpQueue ==
    /\ pc = "parallel" /\ rpc = "fn"
    /\ par.main = "queue"
    /\ par.chunkNum <= par.totalChunks
    /\ LET chunkSize == IF WrapInt64(par.currentOffset + flags.chunkSize) > Item.Size
                        THEN Item.Size - par.currentOffset ELSE flags.chunkSize
       IN par' = [par EXCEPT
                    !.queue = Append(@, [chunkNumber |-> par.chunkNum,
                                         ovaOffset |-> Item.Offset + par.currentOffset,
                                         chunkSize |-> chunkSize]),
                    !.currentOffset = WrapInt64(@ + chunkSize),
                    !.chunkNum = @ + 1]
    /\ UNCHANGED <<lockVars, callVars, parseVars, retryVars, trackerVars, flags, pc, runNo, itemIdx, cursor,
                   failBudget, putLog, loaded, vmCreated, runErr>>

\* close(workQueue), then wg.Wait().
UpClose ==
    /\ pc = "parallel" /\ rpc = "fn"
    /\ par.main = "queue"
    /\ par.chunkNum > par.totalChunks
    /\ par' = [par EXCEPT !.closed = TRUE, !.main = "wait"]
    /\ UNCHANGED <<lockVars, callVars, parseVars, retryVars, trackerVars, flags, pc, runNo, itemIdx, cursor,
                   failBudget, putLog, loaded, vmCreated, runErr>>

\* A worker receives the next range from workQueue.
UpTake(i) ==
    /\ pc = "parallel" /\ rpc = "fn"
    /\ par.main \in {"queue", "wait"}
    /\ par.w[i].st = "recv"
    /\ par.queue # <<>>
    /\ par' = [par EXCEPT !.queue = Tail(@),
                          !.w[i] = [st |-> "put", work |-> <<Head(par.queue)>>]]
    /\ UNCHANGED <<lockVars, callVars, parseVars, retryVars, trackerVars, flags, pc, runNo, itemIdx, cursor,
                   failBudget, putLog, loaded, vmCreated, runErr>>

\* A worker PUTs its range with uploadChunkFromOVAQuiet and sends the result to
\* results, which has room for totalChunks of them.
UpPut(i) ==
    /\ pc = "parallel" /\ rpc = "fn"
    /\ par.main \in {"queue", "wait"}
    /\ par.w[i].st = "put"
    /\ LET work == par.w[i].work[1]
       IN \E kind \in {"ok"} \cup (IF failBudget > 0 THEN RunFailKinds ELSE {}) :
             /\ putLog' = Append(putLog, PutEntry(Item, work.ovaOffset, work.chunkSize, kind = "ok"))
             /\ failBudget' = IF kind = "ok" THEN failBudget ELSE failBudget - 1
             /\ par' = [par EXCEPT
                          !.results = Append(@, [chunkNumber |-> work.chunkNumber,
                                                 err |-> IF kind = "ok" THEN <<>> ELSE <<ChunkErr(kind)>>,
                                                 size |-> work.chunkSize]),
                          !.w[i].st = IF kind = "ok" THEN "progress" ELSE "recv"]
    /\ UNCHANGED <<lockVars, callVars, parseVars, retryVars, trackerVars, flags, pc, runNo, itemIdx, cursor,
                   loaded, vmCreated, runErr>>

\* UpProgress whose callback reports the size of the chunk.
UpProgressChunkSize(i) ==
    /\ pc = "parallel" /\ rpc = "fn"
    /\ par.main \in {"queue", "wait"}
    /\ par.w[i].st = "progress"
    /\ par' = [par EXCEPT !.completedBytes = @ + par.w[i].work[1].chunkSize,
                          !.w[i].st = "recv"]
    /\ session' = <<UpdateFileProgress(session[1], Item.Name, par.w[i].work[1].chunkSize)>>
    /\ UNCHANGED <<lockVars, callVars, parseVars, retryVars, disk, mtimeOrder, sessionFile, stopSaving, asPc,
                   flags, pc, runNo, itemIdx, cursor, failBudget, putLog, loaded, vmCreated, runErr>>

\* Under progressMutex: completedBytes grows and the progress callback reports it.
UpProgress(i) ==
    /\ pc = "parallel" /\ rpc = "fn"
    /\ par.main \in {"queue", "wait"}
    /\ par.w[i].st = "progress"
    /\ par' = [par EXCEPT !.completedBytes = @ + par.w[i].work[1].chunkSize,
                          !.w[i].st = "recv"]
    /\ session' = <<UpdateFileProgress(session[1], Item.Name,
                                       par.completedBytes + par.w[i].work[1].chunkSize)>>
    /\ UNCHANGED <<lockVars, callVars, parseVars, retryVars, disk, mtimeOrder, sessionFile, stopSaving, asPc,
                   flags, pc, runNo, itemIdx, cursor, failBudget, putLog, loaded, vmCreated, runErr>>

\* workQueue is closed and empty: the worker's loop ends, wg.Done().
UpExit(i) ==
    /\ pc = "parallel" /\ rpc = "fn"
    /\ par.main = "wait"
    /\ par.w[i].st = "recv"
    /\ par.queue = <<>> /\ par.closed
    /\ par' = [par EXCEPT !.w[i].st = "exit"]
    /\ UNCHANGED <<lockVars, callVars, parseVars, retryVars, trackerVars, flags, pc, runNo, itemIdx, cursor,
                   failBudget, putLog, loaded, vmCreated, runErr>>

\* UpJoin that returns the error of the result received last.
UpJoinLastError ==
    /\ pc = "parallel" /\ rpc = "fn"
    /\ par.main = "wait"
    /\ \A i \in DOMAIN par.w : par.w[i].st = "exit"
    /\ par' = [par EXCEPT !.main = "done"]
    /\ LET bad == {k \in 1..Len(par.results) : par.results[k].err # <<>>}
       IN IF bad = {} THEN RetryFnOk
          ELSE LET k == CHOOSE j \in bad : \A m \in bad : m <= j
               IN \E draw \in RunDraws, conv \in Convs :
                     RetryFnErr(<<"chunk ">> \o Digits(par.results[k].chunkNumber)
                                    \o <<" failed: ">> \o par.results[k].err[1], draw, conv)
    /\ UNCHANGED <<lockVars, callVars, parseVars, cfg, rm, ctxDone, cancelAt, trackerVars, flags, pc, runNo,
                   itemIdx, cursor, failBudget, putLog, loaded, vmCreated, runErr>>

\* wg.Wait() is over: results is closed and read to its end, and the first
\* error, if any, is returned.
UpJoin ==
    /\ pc = "parallel" /\ rpc = "fn"
    /\ par.main = "wait"
    /\ \A i \in DOMAIN par.w : par.w[i].st = "exit"
    /\ par' = [par EXCEPT !.main = "done"]
    /\ LET e == FirstError(par.results)
       IN IF e = <<>> THEN RetryFnOk
          ELSE \E draw \in RunDraws, conv \in Convs : RetryFnErr(e[1], draw, conv)
    /\ UNCHANGED <<lockVars, callVars, parseVars, cfg, rm, ctxDone, cancelAt, trackerVars, flags, pc, runNo,
                   itemIdx, cursor, failBudget, putLog, loaded, vmCreated, runErr>>

NextUpload ==
    \/ ChunkPutOk
    \/ ChunkPutFail
    \/ UploadDone
    \/ UpStart
    \/ UpQueue
    \/ UpClose
    \/ \E i \in 1..MaxWorkers : par.main \in {"queue", "wait"} /\ i \in DOMAIN par.w /\ UpTake(i)
    \/ \E i \in 1..MaxWorkers : par.main \in {"queue", "wait"} /\ i \in DOMAIN par.w /\ UpPut(i)
    \/ \E i \in 1..MaxWorkers : par.main \in {"queue", "wait"} /\ i \in DOMAIN par.w /\ UpProgress(i)
    \/ \E i \in 1..MaxWorkers : par.main \in {"queue", "wait"} /\ i \in DOMAIN par.w /\ UpExit(i)
    \/ UpJoin

\* The goroutines are scheduled fairly.
SpecUpload == InitUpload /\ [][NextUpload]_vars /\ WF_vars(NextUpload)

RECURSIVE SumN(_)
SumN(log) == IF log = <<>> THEN 0 ELSE Head(log).n + SumN(Tail(log))

CeilDiv(a, b) == (a + b - 1) \div b

\* The call has returned to the retry manager.
UploadReturned == rpc # "fn"
UploadReturnedNil == rpc = "done" /\ execResult[1].kind = "nil"

\* What C28 says of every state of a single-threaded call.
C28_Steps ==
    pc = "exec" =>
        LET S == Item.Size
            C == flags.chunkSize
            acked == SelectSeq(putLog, LAMBDA e : e.ok)
        IN /\ \A k \in 1..Len(putLog) :
                 /\ putLog[k].n = Min(C, S - (k - 1) * C)
                 /\ putLog[k].off = Item.Offset + (k - 1) * C
                 /\ ~putLog[k].ok => (k = Len(putLog) /\ UploadReturned /\ lastErr # <<>>)
           /\ cursor = SumN(acked)
           /\ session[1].Files[Item.Name].UploadedSize = SumN(acked)
           /\ UploadReturnedNil =>
                 /\ Len(putLog) = CeilDiv(S, C)
                 /\ \A k \in 1..Len(putLog) : putLog[k].ok
                 /\ SumN(putLog) = S

\* C28: in a single-threaded call the k-th PUT carries min(C, S - (k-1)C) bytes
\* read at Offset + (k-1)C; the cursor and the tracker's UploadedSize are the
\* bytes of the acknowledged PUTs; a failed PUT is the last one and the call
\* returns its error; a call that returns nil has issued ceil(S/C) PUTs, all
\* acknowledged, whose sizes sum to S; and the call returns.
C28_SingleThreadedChunks ==
    /\ []C28_Steps
    /\ <>(pc = "exec" => UploadReturned)

\* A call for 3 bytes in chunks of 2 has returned nil after two PUTs, the
\* second of 1 byte.
C28_Witness ==
    /\ pc = "exec" /\ UploadReturnedNil
    /\ Item.Size = 3 /\ flags.chunkSize = 2 /\ Item.Offset = 1
    /\ Len(putLog) = 2 /\ putLog[2].n = 1 /\ putLog[2].off = 3

\* The ranges <<offset in the payload, length>> a parallel call has queued so
\* far: those still in workQueue, those a worker holds, and those PUT.
QueuedRanges ==
    [k \in 1..Len(par.queue) |-> <<par.queue[k].ovaOffset - Item.Offset, par.queue[k].chunkSize>>]

HeldRanges(i) ==
    IF par.w[i].st = "put"
    THEN {<<par.w[i].work[1].ovaOffset - Item.Offset, par.w[i].work[1].chunkSize>>}
    ELSE {}

PutRanges == [k \in 1..Len(putLog) |-> <<putLog[k].off - Item.Offset, putLog[k].n>>]

\* The partition of [0, S) in chunks of C.
Partition(S, C) == {<<(k - 1) * C, Min(C, S - (k - 1) * C)>> : k \in 1..CeilDiv(S, C)}

\* C29: in a parallel call workQueue holds ranges in ascending order without
\* overlap; once all are queued, the ranges queued are the partition of [0, S)
\* in chunks of C; and every range is in exactly one place, the queue, one
\* worker or the PUTs issued, so that each is PUT once by one worker.
C29_RangesPartitionPayload ==
    (pc = "parallel" /\ par.main \in {"queue", "wait", "done"}) =>
        /\ \A k \in 1..(Len(QueuedRanges) - 1) :
              QueuedRanges[k][1] + QueuedRanges[k][2] <= QueuedRanges[k + 1][1]
        /\ \A k, m \in 1..Len(PutRanges) : k # m => PutRanges[k] # PutRanges[m]
        /\ \A i, j \in DOMAIN par.w : i # j => HeldRanges(i) \cap HeldRanges(j) = {}
        /\ \A i \in DOMAIN par.w :
              HeldRanges(i) \cap (Range(QueuedRanges) \cup Range(PutRanges)) = {}
        /\ Range(QueuedRanges) \cap Range(PutRanges) = {}
        /\ par.main \in {"wait", "done"} =>
              Range(QueuedRanges) \cup Range(PutRanges) \cup UNION {HeldRanges(i) : i \in DOMAIN par.w}
                  = Partition(Item.Size, flags.chunkSize)
        /\ par.main = "done" => Range(PutRanges) = Partition(Item.Size, flags.chunkSize)

\* What C30 says of a parallel call that has returned.
C30_AtReturn ==
    (pc = "parallel" /\ flags.workers >= 1 /\ UploadReturned) =>
        LET failed == {k \in 1..Len(par.results) : par.results[k].err # <<>>}
        IN /\ par.main = "done"
           /\ \A i \in DOMAIN par.w : par.w[i].st = "exit"
           /\ par.queue = <<>>
           /\ Len(putLog) = par.chunkNum - 1 /\ Len(par.results) = par.chunkNum - 1
           /\ {par.results[k].chunkNumber : k \in 1..Len(par.results)} = 1..(par.chunkNum - 1)
           /\ UploadReturnedNil <=> failed = {}
           /\ failed # {} =>
                 \E k \in failed :
                    /\ \A m \in failed : k <= m
                    /\ lastErr = << <<"chunk ">> \o Digits(par.results[k].chunkNumber)
                                     \o <<" failed: ">> \o par.results[k].err[1] >>

\* C30: a parallel call returns only when every queued chunk has been PUT and
\* every worker has left its loop, whether or not chunks failed; it returns an
\* error exactly when a chunk failed, the error of the failure sent to results
\* first; and it does return (or panics at its start), it is never left waiting.
C30_ParallelDrains ==
    /\ []C30_AtReturn
    /\ <>(pc = "parallel" => (UploadReturned \/ par.main = "panic"))

\* A call has returned the error of chunk 2, whose failure was sent to results
\* before chunk 1 failed too and before chunk 3 was acknowledged.
C30_Witness ==
    /\ pc = "parallel" /\ UploadReturned
    /\ Len(par.results) = 3
    /\ par.results[1].chunkNumber = 2 /\ par.results[1].err # <<>>
    /\ par.results[2].chunkNumber = 1 /\ par.results[2].err # <<>>
    /\ par.results[3].err = <<>>

\* The ranges a parallel call has PUT with an acknowledgement.
AckedRanges == {PutRanges[k] : k \in {j \in 1..Len(putLog) : putLog[j].ok}}

\* The sizes of the chunks whose worker is between its acknowledged PUT and
\* its turn under progressMutex.
RECURSIVE PendingProgress(_)
PendingProgress(W) ==
    IF W = {} THEN 0
    ELSE LET i == CHOOSE j \in W : TRUE
         IN (IF par.w[i].st = "progress" THEN par.w[i].work[1].chunkSize ELSE 0)
            + PendingProgress(W \ {i})

\* What C31 says of every state of a parallel call.
C31_Counter ==
    (pc = "parallel" /\ par.main \in {"queue", "wait", "done"}) =>
        /\ par.completedBytes + PendingProgress(DOMAIN par.w)
              = SumN(SelectSeq(putLog, LAMBDA e : e.ok))
        /\ session[1].Files[Item.Name].UploadedSize = par.completedBytes
        /\ par.main = "done" =>
              (par.completedBytes = Item.Size
                  <=> AckedRanges = Partition(Item.Size, flags.chunkSize))

\* What C31 says of every invocation of the progress callback.
C31_Callback ==
    (pc = "parallel" /\ session' # session) =>
        /\ session'[1].Files[Item.Name].UploadedSize > session[1].Files[Item.Name].UploadedSize
        /\ session'[1].Files[Item.Name].UploadedSize = par'.completedBytes
        /\ \E i \in DOMAIN par.w :
              /\ par.w[i].st = "progress"
              /\ par'.completedBytes = par.completedBytes + par.w[i].work[1].chunkSize

\* C31: in a parallel call the completed-byte counter is the sum of the sizes
\* of the acknowledged chunks that have had their turn under the lock; each
\* invocation of the progress callback gives the tracker that cumulative
\* count, larger than the one before, in every interleaving; and when the call
\* is over the counter is the payload size exactly when every chunk range of
\* the payload was acknowledged.
C31_CumulativeProgress ==
    /\ []C31_Counter
    /\ [][C31_Callback]_vars

\* Chunk 2 of a 3-byte payload, 1 byte, was acknowledged and reported before
\* chunk 1, and the call is over with the counter at 3.
C31_Witness ==
    /\ pc = "parallel" /\ par.main = "done"
    /\ Item.Size = 3 /\ flags.chunkSize = 2
    /\ Len(par.results) = 2 /\ par.results[1].chunkNumber = 2
    /\ par.results[1].err = <<>> /\ par.results[2].err = <<>>
    /\ par.completedBytes = 3
    /\ session[1].Files[Item.Name].UploadedSize = 3

\* C32: a parallel call that returns nil has PUT, with an acknowledgement,
\* every chunk range of the payload, whatever the number of workers.
C32_SuccessMeansAllPut ==
    (pc = "parallel" /\ UploadReturnedNil) =>
        Partition(Item.Size, flags.chunkSize) \subseteq AckedRanges

\* The text t has the text p in it: t = u \o p \o v for some u and v.
HasText(t, p) == \E a \in 0..Len(t) : \E b \in a..Len(t) : SubSeq(t, a + 1, b) = p

\* The step in which fn returns an error to Execute.
FnFailedStep ==
    /\ rpc = "fn" /\ rpc' # "fn"
    /\ ~(rpc' = "done" /\ execResult'[1].kind = "nil")

\* What C33 says of the step in which an attempt fails.
C33_Step ==
    (pc = "idle" /\ FnFailedStep) =>
        LET err == lastErr'[1]
            pats == cfg.RetryableErrors
            terminal == \/ cfg.MaxRetries > 0 /\ attempt >= cfg.MaxRetries
                        \/ /\ Len(pats) > 0
                           /\ \A k \in 1..Len(pats) : ~HasText(err, pats[k])
        IN /\ terminal <=> rpc' = "done"
           /\ ~terminal <=> rpc' = "wait"
           /\ terminal =>
                 /\ execResult' = Returned("failed", attempt, err)
                 /\ opCalls' = attempt /\ delay' = delay /\ cbLog' = cbLog
           /\ (Len(pats) = 0 /\ ~(cfg.MaxRetries > 0 /\ attempt >= cfg.MaxRetries)) => rpc' = "wait"

C34_FailureReportedBeforeWait ==
    /\ rpc = "wait" =>
          Cardinality({j \in 1..Len(cbLog) : cbLog[j] = <<attempt, lastErr, delay>>}) = 1
    /\ \A j \in 1..Len(cbLog) :
          cbLog[j][2] # <<>> =>
              (cbLog[j][1] < attempt \/ (cbLog[j][1] = attempt /\ rpc \in {"wait", "done"}
                                          /\ execResult # Returned("nil", attempt, <<>>)))

----
(* One item upload under the run's retry manager, the endpoint refusing a PUT *)

\* The statuses the endpoint refuses a PUT with, the bodies it sends, and the
\* offsets and chunk numbers of the PUT: with the default chunk size of 32 MiB
\* the 16th chunk starts at offset 503316480.
ItemStatuses == {500, 403}
ItemBodies == {<<>>, <<"gateway ", "timeout">>}
ItemOffsets == {0, 503316480}
ItemChunkNumbers == {1, 502}

\* uploadChunkFromOVAQuiet's error for a refused PUT.
StatusErr(status, body) ==
    <<"upload failed with status ">> \o Digits(status) \o <<": ">> \o body

\* Execute has been entered by runUpload for an item.
InitItem ==
    /\ archive = <<>>
    /\ LockIdle
    /\ pkg = <<>>
    /\ \E n \in MaxRetriesChoices :
          /\ cfg = RunRetryConfig(n)
          /\ rm = NewRetryManager(RunRetryConfig(n))
    /\ attempt = 0 /\ rpc = "attempt" /\ lastErr = <<>> /\ delay = 0 /\ execResult = NoResult
    /\ ctxDone = FALSE /\ opCalls = 0 /\ opHist = {} /\ cancelAt = 0 /\ cbLog = <<>>
    /\ TrackerIdle
    /\ flags = NoFlags /\ pc = "item" /\ runNo = 1 /\ itemIdx = 1 /\ cursor = 0
    /\ par = ParIdle /\ failBudget = 0 /\ putLog = <<>> /\ loaded = <<>> /\ vmCreated = 0
    /\ runErr = ""

ItemAttempt ==
    /\ pc = "item"
    /\ RetryAttempt
    /\ UNCHANGED <<lockVars, callVars, parseVars, cfg, rm, ctxDone, opHist, cancelAt, trackerVars, runVars>>

\* The upload function fails on a refused PUT: uploadFromOVAChunkedQuiet wraps
\* the error with the offset of the chunk, uploadFromOVAParallel with its number.
ItemFnErr ==
    /\ pc = "item"
    /\ \E status \in ItemStatuses, body \in ItemBodies, draw \in RunDraws, conv \in Convs :
          \/ \E off \in ItemOffsets :
                RetryFnErr(<<"failed to upload chunk at offset ">> \o Digits(off) \o <<": ">>
                               \o StatusErr(status, body), draw, conv)
          \/ \E num \in ItemChunkNumbers :
                RetryFnErr(<<"chunk ">> \o Digits(num) \o <<" failed: ">>
                               \o StatusErr(status, body), draw, conv)
    /\ UNCHANGED <<lockVars, callVars, parseVars, cfg, rm, ctxDone, cancelAt, trackerVars, runVars>>

ItemWaitElapsed ==
    /\ pc = "item"
    /\ RetryWaitElapsed
    /\ UNCHANGED <<lockVars, callVars, parseVars, cfg, rm, ctxDone, cancelAt, trackerVars, runVars>>

NextItem ==
    \/ ItemAttempt
    \/ ItemFnErr
    \/ ItemWaitElapsed

SpecItem == InitItem /\ [][NextItem]_vars

\* C35: an item upload whose PUT was refused with a status that is neither a
\* success nor 502, 503 or 504 is not retried: Execute does not wait and the
\* upload function is invoked once, whatever the offset, the chunk number and
\* the response body in the error text.
C35_RefusedStatusNotRetried ==
    pc = "item" => (rpc # "wait" /\ opCalls <= 1)

----
(* pkg/progress: the goroutines of a run in their calls of one tracker *)

\* sync.RWMutex: RLock is granted while no writer holds the mutex or waits for
\* it; Lock announces the writer, which then waits for the readers to leave.
CanRLock == mutex.writer = "none"
RLock == [mutex EXCEPT !.readers = @ + 1]
RUnlock == [mutex EXCEPT !.readers = @ - 1]

\* The tracker of a run is in use: autoSaveLoop is at its select.
InitLock ==
    /\ archive = <<>>
    /\ LockIdle
    /\ pkg = <<>>
    /\ RetryIdle
    /\ disk = [id \in SessionIDs |-> NoFile]
    /\ mtimeOrder = <<>>
    /\ session = <<AddFile(NewSession(SessionIDOfRun(1), "ds", "vm"), "d1.vmdk", 2, "")>>
    /\ sessionFile = SessionIDOfRun(1)
    /\ stopSaving = "open"
    /\ asPc = "select"
    /\ lastCall = <<>>
    /\ snapshot = <<>>
    /\ flags = NoFlags /\ pc = "tracker" /\ runNo = 1 /\ itemIdx = 0 /\ cursor = 0
    /\ par = ParIdle /\ failBudget = 0 /\ putLog = <<>> /\ loaded = <<>> /\ vmCreated = 0
    /\ runErr = ""

\* The process is running: no goroutine has panicked.
Running == pc = "tracker" /\ thr.main # "panic"

\* The progress monitor's GetETA: RLock, then GetUploadSpeed with its own
\* RLock and deferred RUnlock, then GetETA's deferred RUnlock.
GetETA ==
    /\ Running
    /\ \/ /\ thr.monitor = "idle" /\ CanRLock
          /\ mutex' = RLock /\ thr' = [thr EXCEPT !.monitor = "GetETA"]
       \/ /\ thr.monitor = "GetETA" /\ CanRLock
          /\ mutex' = RLock /\ thr' = [thr EXCEPT !.monitor = "GetUploadSpeed"]
       \/ /\ thr.monitor = "GetUploadSpeed"
          /\ mutex' = RUnlock /\ thr' = [thr EXCEPT !.monitor = "eta"]
       \/ /\ thr.monitor = "eta"
          /\ mutex' = RUnlock /\ thr' = [thr EXCEPT !.monitor = "idle"]
    /\ UNCHANGED <<callVars, parseVars, retryVars, trackerVars, runVars>>

\* The uploader's progress callback: UpdateFileProgress takes the mutex for
\* writing, sets the item's size and releases it.
LkUpdateFileProgress ==
    /\ Running
    /\ \/ /\ thr.progress = "idle" /\ mutex.writer = "none"
          /\ mutex' = [mutex EXCEPT !.writer = "waiting"]
          /\ thr' = [thr EXCEPT !.progress = "Lock"]
          /\ session' = session
       \/ /\ thr.progress = "Lock" /\ mutex.readers = 0
          /\ mutex' = [mutex EXCEPT !.writer = "held"]
          /\ thr' = [thr EXCEPT !.progress = "locked"]
          /\ \E v \in 1..2 : session' = <<UpdateFileProgress(session[1], "d1.vmdk", v)>>
       \/ /\ thr.progress = "locked"
          /\ mutex' = [mutex EXCEPT !.writer = "none"]
          /\ thr' = [thr EXCEPT !.progress = "idle"]
          /\ session' = session
    /\ UNCHANGED <<callVars, parseVars, retryVars, disk, mtimeOrder, sessionFile, stopSaving, asPc,
                   runVars>>

\* autoSaveLoop: the ticker case with its Save (RLock, marshal, os.WriteFile
\* until the file is written, RUnlock), or the stopSaving case.
LkAutoSaveLoop ==
    /\ Running
    /\ \/ /\ asPc = "select" /\ CanRLock
          /\ mutex' = RLock /\ asPc' = "Save"
          /\ UNCHANGED <<disk, mtimeOrder>>
       \/ /\ asPc = "Save"
          /\ disk' = [disk EXCEPT ![sessionFile] = <<Marshal(session[1])>>]
          /\ mtimeOrder' = Touch(mtimeOrder, sessionFile)
          /\ mutex' = RUnlock /\ asPc' = "select"
       \/ /\ asPc = "select" /\ stopSaving = "closed"
          /\ asPc' = "stopped"
          /\ UNCHANGED <<mutex, disk, mtimeOrder>>
    /\ UNCHANGED <<callVars, parseVars, retryVars, session, sessionFile, stopSaving, thr, runVars>>

\* The main goroutine calls Save, Close or Delete: Close closes stopSaving (a
\* close of a closed channel panics) and Saves; Delete is Close, then os.Remove.
LkCall ==
    /\ Running
    /\ thr.main = "idle"
    /\ \/ /\ CanRLock
          /\ mutex' = RLock /\ thr' = [thr EXCEPT !.main = "Save", !.call = "Save"]
          /\ UNCHANGED stopSaving
       \/ \E call \in {"Close", "Delete"} :
             /\ thr' = [thr EXCEPT !.main = IF stopSaving = "closed" THEN "panic" ELSE "Close",
                                   !.call = call]
             /\ stopSaving' = "closed"
             /\ UNCHANGED mutex
    /\ UNCHANGED <<callVars, parseVars, retryVars, disk, mtimeOrder, session, sessionFile, asPc,
                   runVars>>

\* The main goroutine goes on in its call: Close's Save takes the mutex for
\* reading; a Save writes the file and returns; Delete removes the file.
LkCallStep ==
    /\ Running
    /\ \/ /\ thr.main = "Close" /\ CanRLock
          /\ mutex' = RLock /\ thr' = [thr EXCEPT !.main = "Save"]
          /\ UNCHANGED <<disk, mtimeOrder>>
       \/ /\ thr.main = "Save"
          /\ disk' = [disk EXCEPT ![sessionFile] = <<Marshal(session[1])>>]
          /\ mtimeOrder' = Touch(mtimeOrder, sessionFile)
          /\ mutex' = RUnlock
          /\ thr' = [thr EXCEPT !.main = IF thr.call = "Delete" THEN "Remove" ELSE "idle"]
       \/ /\ thr.main = "Remove"
          /\ disk' = [disk EXCEPT ![sessionFile] = NoFile]
          /\ mtimeOrder' = SelectSeq(mtimeOrder, LAMBDA x : x # sessionFile)
          /\ thr' = [thr EXCEPT !.main = "idle"]
          /\ UNCHANGED mutex
    /\ UNCHANGED <<callVars, parseVars, retryVars, session, sessionFile, stopSaving, asPc, runVars>>

NextLock ==
    \/ GetETA
    \/ LkUpdateFileProgress
    \/ LkAutoSaveLoop
    \/ LkCall
    \/ LkCallStep

\* Every goroutine that can go on does go on.
SpecLock ==
    /\ InitLock /\ [][NextLock]_vars
    /\ SF_vars(GetETA) /\ SF_vars(LkUpdateFileProgress) /\ SF_vars(LkAutoSaveLoop)
    /\ SF_vars(LkCallStep)

\* C36: no two writes of the session file are in progress at a time: the Save
\* of autoSaveLoop and a Save of the main goroutine (its own, or the one of
\* Close or Delete) are never both between their RLock and their return.
C36_OneWriteAtATime ==
    ~(asPc = "Save" /\ thr.main = "Save")

\* C37: a Close or a Delete called on a tracker that has been stopped does not
\* fault.
C37_DoubleStopGuarded ==
    pc = "tracker" => thr.main # "panic"

\* C38: a call of GetETA returns, whatever the other goroutines do with the
\* tracker, as long as the process runs.
C38_GetETAReturns ==
    (pc = "tracker" /\ thr.monitor # "idle") ~> (thr.monitor = "idle" \/ thr.main = "panic")

----
(* cmd: the list-sessions and resume commands over the session files *)

\* The sessions a file may hold: of a run given --datastore ds1 or ds2, with or
\* without --vm-name custom, for the container vm.ova.
SessionsOf(id) ==
    { [NewSession(id, ds, vm) EXCEPT !.IsCompleted = done] :
        ds \in {"ds1", "ds2"}, vm \in {"vm", "custom"}, done \in BOOLEAN }

\* strings.TrimSuffix(filepath.Base(ovaFile), filepath.Ext(ovaFile)).
DefaultVMName(ovaFile) ==
    CASE ovaFile = "vm.ova" -> "vm"
      [] ovaFile = "/data/vm.ova" -> "vm"
      [] ovaFile = "vm" -> "vm"
      [] OTHER -> ovaFile

\* The command starts in a directory with some session files, written in some
\* order.
InitSessions ==
    /\ archive = <<>>
    /\ LockIdle
    /\ pkg = <<>>
    /\ RetryIdle
    /\ \E present \in SUBSET SessionIDs :
          /\ disk \in [SessionIDs -> {NoFile} \cup {<<Marshal(s)>> : s \in UNION {SessionsOf(id) : id \in SessionIDs}}]
          /\ \A id \in SessionIDs :
                IF id \in present THEN disk[id] \in {<<Marshal(s)>> : s \in SessionsOf(id)}
                ELSE disk[id] = NoFile
          /\ mtimeOrder \in {o \in UNION {[1..n -> present] : n \in 0..MaxRuns} :
                               /\ Range(o) = present
                               /\ Len(o) = Cardinality(present)}
    /\ session = <<>>
    /\ sessionFile = SessionIDOfRun(1)
    /\ stopSaving = "open"
    /\ asPc = "none"
    /\ lastCall = <<>>
    /\ snapshot = <<>>
    /\ flags = NoFlags /\ pc \in {"list-sessions", "resume"} /\ runNo = 1 /\ itemIdx = 1
    /\ cursor = 0 /\ par = ParIdle /\ failBudget = 0 /\ putLog = <<>> /\ loaded = <<>>
    /\ vmCreated = 0 /\ runErr = ""

\* LoadTracker: the file is read and autoSaveLoop is started on the new tracker.
LoadTracker(id) ==
    /\ session' = <<Unmarshal(disk[id][1])>>
    /\ sessionFile' = id
    /\ stopSaving' = "open"
    /\ asPc' = "select"

\* runListSessions: the next session file is loaded (or there is none and the
\* command returns).
LsLoadTracker ==
    /\ pc = "list-sessions"
    /\ LET sessions == FindExistingSessions(disk)
       IN IF itemIdx > Len(sessions)
          THEN /\ pc' = "returned" /\ asPc' = "none"
               /\ UNCHANGED <<session, sessionFile, stopSaving>>
          ELSE /\ LoadTracker(sessions[itemIdx])
               /\ pc' = "list-loaded"
    /\ UNCHANGED <<lockVars, callVars, parseVars, retryVars, disk, mtimeOrder, flags, runNo, itemIdx,
                   cursor, par, failBudget, putLog, loaded, vmCreated, runErr>>

\* tracker.Close: close(stopSaving), then Save.
Close ==
    /\ stopSaving' = "closed"
    /\ disk' = [disk EXCEPT ![sessionFile] = <<Marshal(session[1])>>]
    /\ mtimeOrder' = Touch(mtimeOrder, sessionFile)

\* runListSessions: the session is printed and its tracker closed.
LsClose ==
    /\ pc = "list-loaded"
    /\ Close
    /\ itemIdx' = itemIdx + 1
    /\ pc' = "list-sessions"
    /\ UNCHANGED <<lockVars, callVars, parseVars, retryVars, session, sessionFile, asPc, flags, runNo,
                   cursor, par, failBudget, putLog, loaded, vmCreated, runErr>>

\* runResumeSession: the session file of --session-id, or the most recent one,
\* is loaded.
RsLoadTracker ==
    /\ pc = "resume"
    /\ \E sid \in {<<>>} \cup SessionIDs :
          LET sessions == FindExistingSessions(disk)
              chosen == IF sessions = <<>> THEN <<>>
                        ELSE IF sid # <<>> THEN ResumeSessionByID(sessions, sid)
                        ELSE <<MostRecent(sessions, mtimeOrder)>>
          IN IF chosen = <<>>
             THEN /\ Return("session not found")
                  /\ UNCHANGED <<session, sessionFile, stopSaving, asPc>>
             ELSE /\ LoadTracker(chosen[1])
                  /\ pc' = "resume-loaded"
                  /\ runErr' = runErr
    /\ UNCHANGED <<lockVars, callVars, parseVars, retryVars, disk, mtimeOrder, flags, runNo, itemIdx,
                   cursor, par, failBudget, putLog, loaded, vmCreated>>

\* runResumeSession: GetSession, tracker.Close, and, unless the session is
\* completed, runUpload with the session's container and host, --resume and
\* --session-id; runUpload looks up the datastore of its --datastore flag and
\* names the VM by its --vm-name flag, which the resume command leaves at their
\* defaults, an empty VM name being replaced by the container's base name.
RsCloseAndRun ==
    /\ pc = "resume-loaded"
    /\ Close
    /\ IF session[1].IsCompleted
       THEN /\ Return("")
            /\ lastCall' = lastCall
       ELSE /\ pc' = "start" /\ runErr' = runErr
            /\ LET datastore == ""
                   vmName == ""
               IN lastCall' = <<"runUpload", session[1].SessionID,
                                [datastore |-> datastore,
                                 vmName |-> IF vmName = "" THEN DefaultVMName("vm.ova") ELSE vmName],
                                GetSession(session[1]).val>>
    /\ asPc' = "none"
    /\ UNCHANGED <<lockVars, snapshot, parseVars, retryVars, session, sessionFile, flags, runNo, itemIdx,
                   cursor, par, failBudget, putLog, loaded, vmCreated>>

NextSessions ==
    \/ LsLoadTracker
    \/ LsClose
    \/ RsLoadTracker
    \/ RsCloseAndRun
    \/ AutoSave

SpecSessions == InitSessions /\ [][NextSessions]_vars

\* C39: while list-sessions lists and while resume loads the session it
\* selects, no session file changes, in content or in modification time, so
\* that the most recent session stays the same one.
C39_ListingLeavesFilesUnchanged ==
    [][(pc \in {"list-sessions", "list-loaded", "resume", "resume-loaded"}) =>
          (disk' = disk /\ mtimeOrder' = mtimeOrder)]_vars

\* C40: the run the resume command starts looks up the datastore the session
\* records and names the VM as the session records.
C40_ResumeTargetsSessionDestination ==
    (lastCall # <<>> /\ lastCall[1] = "runUpload") =>
        /\ lastCall[3].datastore = lastCall[4].Datastore
        /\ lastCall[3].vmName = lastCall[4].VMName

====
